---- MODULE Spec2Model ----
(***************************************************************************)
(* Chunked transcription with checkpointed resumption (transcriber.py).    *)
(*                                                                         *)
(* The persistent state is the directory tree under data/temp and          *)
(* data/output; one pipeline instance is the position of one call of       *)
(* transcribe_audio together with its local variables.  Times are kept in  *)
(* milliseconds: a stored "seconds" value round(ms / 1000, 3) is the       *)
(* fixed-point number ms / 1000 with three decimals, written here as ms.   *)
(* Texts are sequences of tokens; "\n" is the separator of the final join. *)
(* The engine handle cached by get_funasr_model is not part of the state:  *)
(* it is always the one loaded for the call's enable_speaker and decides   *)
(* no result beyond that.  The three mkdir calls of a call are one step.   *)
(***************************************************************************)
EXTENDS Integers, Sequences, FiniteSets, TLC

\* ------------------------------------------------------------------ bounds
\* Largest value of the second-resolution wall clock.
MaxTime == 1

\* Largest number of calls of transcribe_audio in one behaviour.
MaxRuns == 2

\* Largest number of times the audio file is rewritten in one behaviour.
MaxEdits == 1

\* Longest list of speaker intervals handed to the aligner.
MaxIntervals == 2

\* Longest list of sentences handed to the run-merge.
MaxSentences == 3

\* Largest number of files in one batch.
MaxFiles == 3

\* ------------------------------------------------------ program constants
CHUNK_DURATION_SECONDS == 30 * 60

NL == "\n"

UNKNOWN == "unknown"

\* ------------------------------------------------------------ environment
\* Stems of the audio files offered to the pipeline.
StemA == <<"a">>

StemAB == <<"a", "b">>

Stems == {StemA, StemAB}

\* Length of a quarter of an hour, the grain of the modelled recordings.
Quarter == 15 * 60 * 1000

\* Recordings: duration in ms and whether anybody speaks.  0 ms is the valid
\* empty recording, 15 min is shorter than one chunk, 30 min is exactly one
\* chunk, 30 min and 1 ms leaves a last chunk of 1 ms, 60 min is two full
\* chunks, 65 min is the specification's scenario (30, 30, 5 min).
Durations == {0, Quarter, 2 * Quarter, 2 * Quarter + 1, 4 * Quarter, 65 * 60 * 1000}

Audios ==
    { [dur |-> d, silent |-> FALSE] : d \in Durations }
        \cup { [dur |-> 2 * Quarter + Quarter, silent |-> TRUE] }

Procs == {1}

\* ------------------------------------------------------------ task names
\* f"{file_name}_{timestamp}": the stem's tokens followed by the timestamp.
TaskName(stem, ts) == [stem |-> stem, ts |-> ts]

TaskNames == { TaskName(s, t) : s \in Stems, t \in 0..MaxTime }

NoTask == [stem |-> <<>>, ts |-> 0]

LetterRank(tok) == IF tok = "a" THEN MaxTime + 1 ELSE MaxTime + 2

\* The name as the string comparison sees it: digits sort before letters.
NameKey(n) == [i \in 1..(Len(n.stem) + 1) |->
                 IF i <= Len(n.stem) THEN LetterRank(n.stem[i]) ELSE n.ts]

RECURSIVE KeyLess(_, _)
KeyLess(k1, k2) ==
    IF k1 = <<>> THEN k2 # <<>>
    ELSE IF k2 = <<>> THEN FALSE
    ELSE IF Head(k1) # Head(k2) THEN Head(k1) < Head(k2)
    ELSE KeyLess(Tail(k1), Tail(k2))

NameLess(n1, n2) == KeyLess(NameKey(n1), NameKey(n2))

\* task_dir.name.startswith(file_name + "_")
StartsWith(n, file_name) ==
    /\ Len(file_name) <= Len(n.stem)
    /\ SubSeq(n.stem, 1, Len(file_name)) = file_name

\* sorted(config.TEMP_DIR.iterdir(), reverse=True)
RECURSIVE SortedReverse(_)
SortedReverse(S) ==
    IF S = {} THEN <<>>
    ELSE LET m == CHOOSE x \in S : \A y \in S \ {x} : NameLess(y, x)
         IN <<m>> \o SortedReverse(S \ {m})

\* --------------------------------------------------------------- files
Absent == [st |-> "absent", data |-> <<>>]

File(d) == [st |-> "ok", data |-> d]

Torn(d) == [st |-> "torn", data |-> d]

Exists(f) == f.st # "absent"

\* What a killed write_text leaves: the file was opened, so it exists, and
\* holds a proper prefix of the text.  Two cut points stand for all of them:
\* nothing was flushed yet, or everything but the last token was.
ProperPrefixes(text) ==
    { SubSeq(text, 1, k) : k \in {0, Len(text) - 1} \cap (0..(Len(text) - 1)) }

\* ------------------------------------------------------------- chunking
chunk_ms == CHUNK_DURATION_SECONDS * 1000

MaxDur == 65 * 60 * 1000

\* Indices a chunk file may carry: chunk_0000.wav, chunk_0001.wav, ...
ChunkIdx == 0..((MaxDur + chunk_ms - 1) \div chunk_ms - 1)

Min(a, b) == IF a <= b THEN a ELSE b

\* A chunk artifact's location: chunks_dir / f"chunk_{idx:04d}.wav"
ChunkPath(task_name, idx) == [task |-> task_name, idx |-> idx]

\* Mutant: the last window is not cut at the end of the recording.
WindowNotClamped(src, start, duration_ms) ==
    [src |-> src, start |-> start, end |-> start + chunk_ms]

\* audio[start:end] of the decoded source
Window(src, start, duration_ms) ==
    [src |-> src, start |-> start, end |-> Min(start + chunk_ms, duration_ms)]

\* -------------------------------------------------- transcription engine
Words == <<"s0", "s1", "s2", "s3", "s4">>

\* Sentences the recogniser hears in one chunk: one per started quarter of
\* an hour, with chunk-local times in ms and alternating speaker clusters.
\* The "spk" field is there only when the model was loaded with spk_model.
Sentence(chunk, q, use_speaker) ==
    [text  |-> <<Words[(chunk.start \div Quarter) + q + 1]>>,
     start |-> q * Quarter,
     end   |-> Min((q + 1) * Quarter, chunk.end - chunk.start),
     spk   |-> IF use_speaker THEN <<q % 2>> ELSE <<>>]

RECURSIVE Concat(_)
Concat(texts) == IF texts = <<>> THEN <<>> ELSE Head(texts) \o Concat(Tail(texts))

\* model.generate(input=chunk_path, sentence_timestamp=True): res[0]
Generate(chunk, silent, use_speaker) ==
    IF silent THEN <<[text |-> <<>>, sentence_info |-> <<>>]>>
    ELSE LET n == (chunk.end - chunk.start + Quarter - 1) \div Quarter
             info == [i \in 1..n |-> Sentence(chunk, i - 1, use_speaker)]
         IN <<[text |-> Concat([i \in 1..n |-> info[i].text]), sentence_info |-> info]>>

\* -------------------------------------------------------- parsing, joining
RECURSIVE LStrip(_)
LStrip(text) ==
    IF text # <<>> /\ Head(text) = NL THEN LStrip(Tail(text)) ELSE text

RECURSIVE RStrip(_)
RStrip(text) ==
    IF text # <<>> /\ text[Len(text)] = NL
    THEN RStrip(SubSeq(text, 1, Len(text) - 1)) ELSE text

Strip(text) == RStrip(LStrip(text))

\* f"SPEAKER_{int(spk_raw):02d}"
SpeakerLabel(spk_raw) == <<"SPEAKER_00", "SPEAKER_01">>[spk_raw + 1]

\* Mutant: the chunk's offset is not added to the sentence's times.
ParseSentenceLocal(sent, time_offset_ms, use_speaker) ==
    [start   |-> sent.start,
     end     |-> sent.end,
     text    |-> Strip(sent.text),
     speaker |-> IF use_speaker /\ sent.spk # <<>>
                 THEN SpeakerLabel(sent.spk[1]) ELSE UNKNOWN]

ParseSentence(sent, time_offset_ms, use_speaker) ==
    [start   |-> sent.start + time_offset_ms,
     end     |-> sent.end + time_offset_ms,
     text    |-> Strip(sent.text),
     speaker |-> IF use_speaker /\ sent.spk # <<>>
                 THEN SpeakerLabel(sent.spk[1]) ELSE UNKNOWN]

_parse_funasr_result(result, time_offset_ms, use_speaker) ==
    IF result = <<>> THEN [text |-> <<>>, segments |-> <<>>]
    ELSE LET item == result[1]
             text == Strip(item.text)
         IN IF item.sentence_info = <<>> THEN [text |-> text, segments |-> <<>>]
            ELSE [text |-> text,
                  segments |-> [i \in 1..Len(item.sentence_info) |->
                      ParseSentence(item.sentence_info[i], time_offset_ms, use_speaker)]]

\* sep.join(parts)
RECURSIVE Join(_, _)
Join(parts, sep) ==
    IF parts = <<>> THEN <<>>
    ELSE IF Len(parts) = 1 THEN parts[1]
    ELSE parts[1] \o sep \o Join(Tail(parts), sep)

\* One output line: the speaker in brackets, then the joined texts.
AnnotatedLine(speaker, texts) == <<"[", speaker, "]">> \o Concat(texts)

\* Mutant: every sentence becomes a line of its own.
RECURSIVE BuildLinesUnmerged(_, _, _, _)
BuildLinesUnmerged(segments, current_speaker, current_texts, lines) ==
    IF segments = <<>> THEN lines
    ELSE BuildLinesUnmerged(Tail(segments), current_speaker, current_texts,
             Append(lines, AnnotatedLine(Head(segments).speaker, <<Head(segments).text>>)))

RECURSIVE BuildLines(_, _, _, _)
BuildLines(segments, current_speaker, current_texts, lines) ==
    IF segments = <<>>
    THEN IF current_speaker # <<>> /\ current_texts # <<>>
         THEN Append(lines, AnnotatedLine(current_speaker[1], current_texts))
         ELSE lines
    ELSE LET seg == Head(segments)
         IN IF <<seg.speaker>> # current_speaker
            THEN BuildLines(Tail(segments), <<seg.speaker>>, <<seg.text>>,
                     IF current_speaker # <<>> /\ current_texts # <<>>
                     THEN Append(lines, AnnotatedLine(current_speaker[1], current_texts))
                     ELSE lines)
            ELSE BuildLines(Tail(segments), current_speaker,
                     Append(current_texts, seg.text), lines)

_build_annotated_text(segments) ==
    Join(BuildLines(segments, <<>>, <<>>, <<>>), <<NL, NL>>)

\* ------------------------------------------------------------------ state
VARIABLES
    clock,        \* datetime.now(), in seconds
    runs,         \* number of calls of transcribe_audio or diarize_audio so far
    audio,        \* the audio files on disk: stem -> recording
    inputCopy,    \* data/input: stems whose file has been backed up
    tempDirs,     \* data/temp: names of the task directories
    outDirs,      \* data/output: names of the task directories
    chunkFile,    \* temp/<task>/chunks/chunk_<idx>.wav
    manifest,     \* temp/<task>/chunks_manifest.json
    textRes,      \* temp/<task>/chunk_results/chunk_<idx>.txt
    segRes,       \* temp/<task>/chunk_results/chunk_<idx>_segments.json
    transcript,   \* output/<task>/transcript (final_transcript_path)
    segmentsOut,  \* output/<task>/segments.json
    annotated,    \* output/<task>/annotated transcript (final_annotated_path)
    run,          \* per process: the call of transcribe_audio in progress
    splitRet,     \* history: the chunk list returned by the split that wrote the manifest
    usedFlags,    \* history: the enable_speaker values of the runs of a task
    lastFail      \* history: per stem, where the last engine failure happened

disk == <<tempDirs, outDirs, chunkFile, manifest, textRes, segRes,
          transcript, segmentsOut, annotated, inputCopy>>

\* The diarizer (diarizer.py) and what it reads and writes.
VARIABLES
    stat,         \* os.stat of the audio files: stem -> size and modification time
    cache,        \* temp/<task>/diarization_cache.json
    dcall,        \* per process: the call of diarize_audio in progress
    dhist         \* history: completed saves, broken and completed calls

\* The aligner (diarizer.py): its two arguments and its result.
VARIABLES
    whisper_segments,
    diarization_segments,
    aligned

\* The batch handlers (handlers.py, main.py) and the task list (state.py).
VARIABLES
    batch,            \* the call of process_files in progress
    completed_tasks,  \* the dictionary of task records, by file name
    tasks_db,         \* config.TASKS_DB_PATH, the saved task list
    lock,             \* _tasks_lock: the thread that holds it, if any
    thr               \* per thread: the call of a state.py function in progress

diarization == <<stat, cache, dcall, dhist>>

tasklist == <<batch, completed_tasks, tasks_db, lock, thr>>

alignment == <<whisper_segments, diarization_segments, aligned>>

vars == <<clock, runs, audio, disk, run, splitRet, usedFlags, lastFail,
          diarization, alignment, tasklist>>

\* Python's None, and a value that is there.
None == <<>>

Some(v) == <<v>>

\* os.stat of an audio file: its size and its modification time, a number of
\* whole seconds and a part of a second.
Stat0 == [st_size |-> 1, st_mtime |-> [sec |-> 0, frac |-> 0]]

\* The file as it was at first, and rewritten: longer, a second later, or
\* within the same second.
Stats ==
    {Stat0,
     [Stat0 EXCEPT !.st_size = 2],
     [Stat0 EXCEPT !.st_mtime.sec = 1],
     [Stat0 EXCEPT !.st_mtime.frac = 1]}

NoSave == [some |-> FALSE, stat |-> Stat0, segments |-> <<>>]

NoCall == [some |-> FALSE, task |-> NoTask, stat |-> Stat0]

\* The local variables of diarize_audio and, from `hit` on, what an observer
\* noted about the call.
IdleCall ==
    [pc |-> "idle", src |-> <<>>, task |-> NoTask, cached |-> None,
     segments |-> <<>>, ret |-> <<>>, text |-> <<>>, pos |-> 0,
     hit |-> FALSE, called |-> FALSE, wrote |-> FALSE,
     seen |-> [stat |-> Stat0, entry |-> [st |-> "absent", data |-> <<>>], saved |-> NoSave],
     broken |-> NoCall, completed |-> NoCall]

NoDHist ==
    [edits |-> 0,
     saved |-> [t \in TaskNames |-> NoSave],
     broken |-> [s \in Stems |-> NoCall],
     completed |-> [s \in Stems |-> NoCall]]

NoDiarization ==
    /\ stat = [s \in {StemA} |-> Stat0]
    /\ cache = [t \in TaskNames |-> [st |-> "absent", data |-> <<>>]]
    /\ dcall = [p \in Procs |-> IdleCall]
    /\ dhist = NoDHist

NoAlignment ==
    /\ whisper_segments = <<>>
    /\ diarization_segments = <<>>
    /\ aligned = [pc |-> "idle", text |-> <<>>, labels |-> <<>>, lines |-> <<>>]

\* The dictionary with no name in it.
EmptyDict == [n \in {} |-> None]

\* The local variables of process_files and, in `log` and `first`, what an
\* observer noted about each file of the batch and the task list at its start.
IdleBatch ==
    [pc |-> "idle", variant |-> "", files |-> 0, file_idx |-> 0,
     enable_diarization |-> FALSE, diarization_fallback |-> "",
     log |-> <<>>, first |-> EmptyDict]

Threads == {1, 2}

\* The arguments and local variables of a state.py function and, in `seen`,
\* the dictionary as it was when the thread got the lock.
IdleThread ==
    [pc |-> "idle", op |-> "", name |-> "", task |-> None,
     serializable |-> EmptyDict, ret |-> None, seen |-> EmptyDict]

NoTaskList ==
    /\ batch = IdleBatch
    /\ completed_tasks = EmptyDict
    /\ tasks_db = Absent
    /\ lock = None
    /\ thr = [t \in Threads |-> IdleThread]

NoFail == [task |-> NoTask, idx |-> 0, some |-> FALSE]

\* The local variables of transcribe_audio and split_audio, and, from
\* `resumed` on, what an observer noted about the call.
IdleRun ==
    [pc |-> "idle", src |-> <<>>, flag |-> FALSE, task |-> NoTask,
     chunk_paths |-> <<>>, duration_ms |-> 0, start |-> 0, idx |-> 0,
     text |-> <<>>, segments |-> <<>>, all_texts |-> <<>>, all_segments |-> <<>>,
     ret |-> <<>>, cause |-> "",
     resumed |-> FALSE, early |-> FALSE, selComplete |-> FALSE,
     pre |-> Absent, preChunks |-> <<>>, decoded |-> FALSE, exports |-> 0,
     calls |-> <<>>, after |-> NoFail]

\* ------------------------------------------------ reading the directories
\* not final_transcript.exists() or not final_transcript.read_text().strip()
Unfinished(task_name) ==
    \/ ~Exists(transcript[task_name])
    \/ Strip(transcript[task_name].data) = <<>>

RECURSIVE ScanTasks(_, _)
ScanTasks(dirs, file_name) ==
    IF dirs = <<>> THEN NoTask
    ELSE IF StartsWith(Head(dirs), file_name) /\ Unfinished(Head(dirs))
         THEN Head(dirs)
         ELSE ScanTasks(Tail(dirs), file_name)

\* Mutant: the scan for an unfinished task is left out.
FindNothing(file_name) == NoTask

_find_existing_task(file_name) == ScanTasks(SortedReverse(tempDirs), file_name)

\* Mutant: the resume check looks at the text file alone.
HasResultTextOnly(task_name, idx) == Exists(textRes[task_name][idx])

\* Mutant: the resume check is left out, every chunk is recognised again.
HasResultNever(task_name, idx) == FALSE

\* text_result_path.exists() and segments_result_path.exists()
HasResult(task_name, idx) ==
    Exists(textRes[task_name][idx]) /\ Exists(segRes[task_name][idx])

\* p.exists() for every p of the manifest
AllChunksExist(chunk_paths) ==
    \A i \in 1..Len(chunk_paths) :
        Exists(chunkFile[chunk_paths[i].task][chunk_paths[i].idx])

Idle(p) == run[p].pc \in {"idle", "done", "failed"}

Raise(p, cause) == run' = [run EXCEPT ![p].pc = "failed", ![p].cause = cause]

\* The process is killed: its local variables are lost.
Killed(p) == run' = [run EXCEPT ![p] = IdleRun]

\* ------------------------------------------------------ transcribe_audio
\* Lines 213-221: the task name from the stem and the clock (which never
\* runs backwards and may not have advanced since the last call), or the
\* unfinished task found for the stem.
Invoke(p, src, flag, now) ==
    /\ Idle(p)
    /\ runs < MaxRuns
    /\ runs' = runs + 1
    /\ clock' = now
    /\ LET existing_task == _find_existing_task(src)
           task_name == IF existing_task # NoTask THEN existing_task
                        ELSE TaskName(src, now)
       IN run' = [run EXCEPT ![p] =
              [IdleRun EXCEPT !.pc = "prepare", !.src = src, !.flag = flag,
                  !.task = task_name,
                  !.resumed = (existing_task # NoTask),
                  !.selComplete = ~Unfinished(task_name),
                  !.after = lastFail[src]]]
    /\ lastFail' = [lastFail EXCEPT ![src] = NoFail]
    /\ UNCHANGED <<diarization, alignment, audio, disk, splitRet, usedFlags, tasklist>>

\* Lines 224-250: back up the input, make the directories, and return the
\* stored text when the target artifact is already there and not blank.
Prepare(p) ==
    /\ run[p].pc = "prepare"
    /\ LET t == run[p].task
           target_path == IF run[p].flag THEN annotated[t] ELSE transcript[t]
       IN /\ inputCopy' = inputCopy \cup {run[p].src}
          /\ outDirs' = outDirs \cup {t}
          /\ tempDirs' = tempDirs \cup {t}
          /\ IF Exists(target_path) /\ Strip(target_path.data) # <<>>
             THEN /\ run' = [run EXCEPT ![p].pc = "done", ![p].early = TRUE,
                                        ![p].ret = target_path.data]
                  /\ UNCHANGED usedFlags
             ELSE /\ run' = [run EXCEPT ![p].pc = "split"]
                  /\ usedFlags' = [usedFlags EXCEPT ![t] = @ \cup {run[p].flag}]
    /\ UNCHANGED <<diarization, alignment, clock, runs, audio, chunkFile, manifest, textRes, segRes,
                   transcript, segmentsOut, annotated, splitRet, lastFail, tasklist>>

\* ----------------------------------------------------------- split_audio
\* Mutant: the manifest is not looked at, the recording is always split anew.
SplitAlways(p) ==
    /\ run[p].pc = "split"
    /\ run' = [run EXCEPT ![p].pc = "decode", ![p].pre = manifest[run[p].task],
                          ![p].preChunks = chunkFile[run[p].task]]
    /\ UNCHANGED <<diarization, alignment, clock, runs, audio, disk, splitRet, usedFlags, lastFail, tasklist>>

\* Lines 72-81: reuse the manifest when every chunk it lists is present.
SplitCheck(p) ==
    /\ run[p].pc = "split"
    /\ LET t == run[p].task
           seen == [run EXCEPT ![p].pre = manifest[t], ![p].preChunks = chunkFile[t]]
       IN IF Exists(manifest[t])
          THEN IF manifest[t].st = "torn"
               THEN run' = [seen EXCEPT ![p].pc = "failed", ![p].cause = "corrupt"]
               ELSE LET chunk_paths == manifest[t].data[1].chunk_paths
                    IN IF AllChunksExist(chunk_paths)
                       THEN run' = [seen EXCEPT ![p].pc = "loop", ![p].idx = 0,
                                                ![p].chunk_paths = chunk_paths]
                       ELSE run' = [seen EXCEPT ![p].pc = "decode"]
          ELSE run' = [seen EXCEPT ![p].pc = "decode"]
    /\ UNCHANGED <<diarization, alignment, clock, runs, audio, disk, splitRet, usedFlags, lastFail, tasklist>>

\* Lines 84-89: AudioSegment.from_file and len(audio).
Decode(p) ==
    /\ run[p].pc = "decode"
    /\ run' = [run EXCEPT ![p].pc = "export", ![p].decoded = TRUE,
                          ![p].duration_ms = audio[run[p].src].dur,
                          ![p].start = 0, ![p].idx = 0, ![p].chunk_paths = <<>>]
    /\ UNCHANGED <<diarization, alignment, clock, runs, audio, disk, splitRet, usedFlags, lastFail, tasklist>>

\* from_file raises: the file cannot be read or decoded.
DecodeFail(p) ==
    /\ run[p].pc = "decode"
    /\ Raise(p, "decode")
    /\ UNCHANGED <<diarization, alignment, clock, runs, audio, disk, splitRet, usedFlags, lastFail, tasklist>>

\* Lines 90-96: one iteration of for start in range(0, duration_ms, chunk_ms).
ExportChunk(p) ==
    /\ run[p].pc = "export"
    /\ run[p].start < run[p].duration_ms
    /\ LET t == run[p].task
           chunk == Window(run[p].src, run[p].start, run[p].duration_ms)
       IN /\ chunkFile' = [chunkFile EXCEPT ![t][run[p].idx] = File(<<chunk>>)]
          /\ run' = [run EXCEPT ![p].chunk_paths = Append(@, ChunkPath(t, run[p].idx)),
                                ![p].idx = @ + 1, ![p].start = @ + chunk_ms,
                                ![p].exports = @ + 1]
    /\ UNCHANGED <<diarization, alignment, clock, runs, audio, tempDirs, outDirs, manifest, textRes, segRes,
                   transcript, segmentsOut, annotated, inputCopy,
                   splitRet, usedFlags, lastFail, tasklist>>

\* The process is killed inside chunk.export: a truncated wav is left.
ExportChunkTorn(p) ==
    /\ run[p].pc = "export"
    /\ run[p].start < run[p].duration_ms
    /\ chunkFile' = [chunkFile EXCEPT ![run[p].task][run[p].idx] = Torn(<<>>)]
    /\ Killed(p)
    /\ UNCHANGED <<diarization, alignment, clock, runs, audio, tempDirs, outDirs, manifest, textRes, segRes,
                   transcript, segmentsOut, annotated, inputCopy,
                   splitRet, usedFlags, lastFail, tasklist>>

ManifestOf(audio_path, chunk_paths) ==
    [source_audio |-> audio_path,
     total_chunks |-> Len(chunk_paths),
     chunk_duration_seconds |-> CHUNK_DURATION_SECONDS,
     chunk_paths |-> chunk_paths]

\* Lines 98-109: the range is exhausted; write the manifest and return.
WriteManifest(p) ==
    /\ run[p].pc = "export"
    /\ run[p].start >= run[p].duration_ms
    /\ LET t == run[p].task
       IN /\ manifest' = [manifest EXCEPT ![t] =
                 File(<<ManifestOf(run[p].src, run[p].chunk_paths)>>)]
          /\ splitRet' = [splitRet EXCEPT ![t] = run[p].chunk_paths]
    /\ run' = [run EXCEPT ![p].pc = "loop", ![p].idx = 0]
    /\ UNCHANGED <<diarization, alignment, clock, runs, audio, tempDirs, outDirs, chunkFile, textRes, segRes,
                   transcript, segmentsOut, annotated, inputCopy,
                   usedFlags, lastFail, tasklist>>

\* The process is killed inside manifest_path.write_text.
WriteManifestTorn(p) ==
    /\ run[p].pc = "export"
    /\ run[p].start >= run[p].duration_ms
    /\ manifest' = [manifest EXCEPT ![run[p].task] = Torn(<<>>)]
    /\ Killed(p)
    /\ UNCHANGED <<diarization, alignment, clock, runs, audio, tempDirs, outDirs, chunkFile, textRes, segRes,
                   transcript, segmentsOut, annotated, inputCopy,
                   splitRet, usedFlags, lastFail, tasklist>>

\* ------------------------------------------------------- the chunk loop
InLoop(p) == run[p].pc = "loop" /\ run[p].idx < Len(run[p].chunk_paths)

\* Mutant: a loaded chunk's segments are not added to the global list.
LoadChunkTextOnly(p) ==
    /\ InLoop(p)
    /\ HasResult(run[p].task, run[p].idx)
    /\ LET t == run[p].task
           i == run[p].idx
       IN IF segRes[t][i].st = "torn"
          THEN Raise(p, "corrupt")
          ELSE run' = [run EXCEPT ![p].all_texts = Append(@, textRes[t][i].data),
                                  ![p].idx = i + 1]
    /\ UNCHANGED <<diarization, alignment, clock, runs, audio, disk, splitRet, usedFlags, lastFail, tasklist>>

\* Lines 276-288: both result files exist; load them and go on.
LoadChunk(p) ==
    /\ InLoop(p)
    /\ HasResult(run[p].task, run[p].idx)
    /\ LET t == run[p].task
           i == run[p].idx
       IN IF segRes[t][i].st = "torn"
          THEN Raise(p, "corrupt")
          ELSE run' = [run EXCEPT ![p].all_texts = Append(@, textRes[t][i].data),
                                  ![p].all_segments = @ \o segRes[t][i].data,
                                  ![p].idx = i + 1]
    /\ UNCHANGED <<diarization, alignment, clock, runs, audio, disk, splitRet, usedFlags, lastFail, tasklist>>

\* Lines 297-305: model.generate on the chunk, then _parse_funasr_result
\* with time_offset_ms = idx * CHUNK_DURATION_SECONDS * 1000.
EngineCall(p) ==
    /\ InLoop(p)
    /\ ~HasResult(run[p].task, run[p].idx)
    /\ LET path == run[p].chunk_paths[run[p].idx + 1]
           wav == chunkFile[path.task][path.idx]
       IN /\ wav.st = "ok"
          /\ LET chunk == wav.data[1]
                 result == Generate(chunk, audio[chunk.src].silent, run[p].flag)
                 parsed == _parse_funasr_result(result,
                               run[p].idx * CHUNK_DURATION_SECONDS * 1000, run[p].flag)
             IN run' = [run EXCEPT ![p].pc = "save_text",
                                   ![p].text = parsed.text,
                                   ![p].segments = parsed.segments,
                                   ![p].calls = Append(@, run[p].idx)]
    /\ UNCHANGED <<diarization, alignment, clock, runs, audio, disk, splitRet, usedFlags, lastFail, tasklist>>

\* model.generate raises; the exception leaves transcribe_audio.
EngineFail(p) ==
    /\ InLoop(p)
    /\ ~HasResult(run[p].task, run[p].idx)
    /\ run' = [run EXCEPT ![p].pc = "failed", ![p].cause = "engine",
                          ![p].calls = Append(@, run[p].idx)]
    /\ lastFail' = [lastFail EXCEPT ![run[p].src] =
                       [task |-> run[p].task, idx |-> run[p].idx, some |-> TRUE]]
    /\ UNCHANGED <<diarization, alignment, clock, runs, audio, disk, splitRet, usedFlags, tasklist>>

\* Line 309: text_result_path.write_text(text)
SaveText(p) ==
    /\ run[p].pc = "save_text"
    /\ textRes' = [textRes EXCEPT ![run[p].task][run[p].idx] = File(run[p].text)]
    /\ run' = [run EXCEPT ![p].pc = "save_seg"]
    /\ UNCHANGED <<diarization, alignment, clock, runs, audio, tempDirs, outDirs, chunkFile, manifest, segRes,
                   transcript, segmentsOut, annotated, inputCopy,
                   splitRet, usedFlags, lastFail, tasklist>>

\* The process is killed inside that write: a proper prefix is on disk.
SaveTextTorn(p) ==
    /\ run[p].pc = "save_text"
    /\ \E part \in ProperPrefixes(run[p].text) :
           textRes' = [textRes EXCEPT ![run[p].task][run[p].idx] = Torn(part)]
    /\ Killed(p)
    /\ UNCHANGED <<diarization, alignment, clock, runs, audio, tempDirs, outDirs, chunkFile, manifest, segRes,
                   transcript, segmentsOut, annotated, inputCopy,
                   splitRet, usedFlags, lastFail, tasklist>>

\* Lines 310-316: write the segments file, then extend the accumulators.
SaveSegments(p) ==
    /\ run[p].pc = "save_seg"
    /\ segRes' = [segRes EXCEPT ![run[p].task][run[p].idx] = File(run[p].segments)]
    /\ run' = [run EXCEPT ![p].pc = "loop",
                          ![p].all_texts = Append(@, run[p].text),
                          ![p].all_segments = @ \o run[p].segments,
                          ![p].idx = @ + 1,
                          ![p].text = <<>>, ![p].segments = <<>>]
    /\ UNCHANGED <<diarization, alignment, clock, runs, audio, tempDirs, outDirs, chunkFile, manifest, textRes,
                   transcript, segmentsOut, annotated, inputCopy,
                   splitRet, usedFlags, lastFail, tasklist>>

\* The process is killed inside that write: the JSON text is cut short.
SaveSegmentsTorn(p) ==
    /\ run[p].pc = "save_seg"
    /\ segRes' = [segRes EXCEPT ![run[p].task][run[p].idx] = Torn(<<>>)]
    /\ Killed(p)
    /\ UNCHANGED <<diarization, alignment, clock, runs, audio, tempDirs, outDirs, chunkFile, manifest, textRes,
                   transcript, segmentsOut, annotated, inputCopy,
                   splitRet, usedFlags, lastFail, tasklist>>

\* ------------------------------------------------------ the final writes
AtEnd(p) == run[p].pc = "loop" /\ run[p].idx >= Len(run[p].chunk_paths)

\* Mutant: the chunk texts are joined with nothing between them.
full_transcript_unseparated(p) == Concat(run[p].all_texts)

full_transcript(p) == Join(run[p].all_texts, <<NL>>)

\* Lines 331-332
WriteTranscript(p) ==
    /\ AtEnd(p)
    /\ transcript' = [transcript EXCEPT ![run[p].task] = File(full_transcript(p))]
    /\ run' = [run EXCEPT ![p].pc = "segments"]
    /\ UNCHANGED <<diarization, alignment, clock, runs, audio, tempDirs, outDirs, chunkFile, manifest, textRes,
                   segRes, segmentsOut, annotated, inputCopy,
                   splitRet, usedFlags, lastFail, tasklist>>

WriteTranscriptTorn(p) ==
    /\ AtEnd(p)
    /\ \E part \in ProperPrefixes(full_transcript(p)) :
           transcript' = [transcript EXCEPT ![run[p].task] = Torn(part)]
    /\ Killed(p)
    /\ UNCHANGED <<diarization, alignment, clock, runs, audio, tempDirs, outDirs, chunkFile, manifest, textRes,
                   segRes, segmentsOut, annotated, inputCopy,
                   splitRet, usedFlags, lastFail, tasklist>>

\* Lines 335-338
WriteSegments(p) ==
    /\ run[p].pc = "segments"
    /\ segmentsOut' = [segmentsOut EXCEPT ![run[p].task] = File(run[p].all_segments)]
    /\ run' = [run EXCEPT ![p].pc = "annotate"]
    /\ UNCHANGED <<diarization, alignment, clock, runs, audio, tempDirs, outDirs, chunkFile, manifest, textRes,
                   segRes, transcript, annotated, inputCopy,
                   splitRet, usedFlags, lastFail, tasklist>>

WriteSegmentsTorn(p) ==
    /\ run[p].pc = "segments"
    /\ segmentsOut' = [segmentsOut EXCEPT ![run[p].task] = Torn(<<>>)]
    /\ Killed(p)
    /\ UNCHANGED <<diarization, alignment, clock, runs, audio, tempDirs, outDirs, chunkFile, manifest, textRes,
                   segRes, transcript, annotated, inputCopy,
                   splitRet, usedFlags, lastFail, tasklist>>

\* Lines 342-345
has_speaker_info(p) ==
    /\ run[p].flag
    /\ \E i \in 1..Len(run[p].all_segments) : run[p].all_segments[i].speaker # UNKNOWN

\* Lines 340-366: the annotated text when speakers were found, and return.
Annotate(p) ==
    /\ run[p].pc = "annotate"
    /\ IF has_speaker_info(p)
       THEN LET annotated_text == _build_annotated_text(run[p].all_segments)
            IN /\ annotated' = [annotated EXCEPT ![run[p].task] = File(annotated_text)]
               /\ run' = [run EXCEPT ![p].pc = "done", ![p].ret = annotated_text]
       ELSE /\ run' = [run EXCEPT ![p].pc = "done", ![p].ret = full_transcript(p)]
            /\ UNCHANGED annotated
    /\ UNCHANGED <<diarization, alignment, clock, runs, audio, tempDirs, outDirs, chunkFile, manifest, textRes,
                   segRes, transcript, segmentsOut, inputCopy,
                   splitRet, usedFlags, lastFail, tasklist>>

AnnotateTorn(p) ==
    /\ run[p].pc = "annotate"
    /\ has_speaker_info(p)
    /\ \E part \in ProperPrefixes(_build_annotated_text(run[p].all_segments)) :
           annotated' = [annotated EXCEPT ![run[p].task] = Torn(part)]
    /\ Killed(p)
    /\ UNCHANGED <<diarization, alignment, clock, runs, audio, tempDirs, outDirs, chunkFile, manifest, textRes,
                   segRes, transcript, segmentsOut, inputCopy,
                   splitRet, usedFlags, lastFail, tasklist>>

\* ------------------------------------------------------------ environment
\* Process termination between two file operations.
Crash(p) ==
    /\ ~Idle(p)
    /\ Killed(p)
    /\ UNCHANGED <<diarization, alignment, clock, runs, audio, disk, splitRet, usedFlags, lastFail, tasklist>>

\* ---------------------------------------------------------- specification
NoFiles == [t \in TaskNames |-> Absent]

NoChunkFiles == [t \in TaskNames |-> [i \in ChunkIdx |-> Absent]]

EmptyDisk ==
    /\ inputCopy = {}
    /\ tempDirs = {}
    /\ outDirs = {}
    /\ chunkFile = NoChunkFiles
    /\ manifest = NoFiles
    /\ textRes = NoChunkFiles
    /\ segRes = NoChunkFiles
    /\ transcript = NoFiles
    /\ segmentsOut = NoFiles
    /\ annotated = NoFiles

NoHistory ==
    /\ splitRet = [t \in TaskNames |-> <<>>]
    /\ usedFlags = [t \in TaskNames |-> {}]
    /\ lastFail = [s \in Stems |-> NoFail]

\* One recording, a.wav, of any of the modelled lengths; nothing processed yet.
Init ==
    /\ clock = 0
    /\ runs = 0
    /\ audio \in [{StemA} -> Audios]
    /\ EmptyDisk
    /\ NoHistory
    /\ run = [p \in Procs |-> IdleRun]
    /\ NoDiarization
    /\ NoAlignment
    /\ NoTaskList

Step(p) ==
    \/ \E src \in DOMAIN audio, flag \in BOOLEAN, now \in clock..MaxTime :
           Invoke(p, src, flag, now)
    \/ Prepare(p)
    \/ SplitCheck(p)
    \/ Decode(p)
    \/ DecodeFail(p)
    \/ ExportChunk(p)
    \/ ExportChunkTorn(p)
    \/ WriteManifest(p)
    \/ WriteManifestTorn(p)
    \/ LoadChunk(p)
    \/ EngineCall(p)
    \/ EngineFail(p)
    \/ SaveText(p)
    \/ SaveTextTorn(p)
    \/ SaveSegments(p)
    \/ SaveSegmentsTorn(p)
    \/ WriteTranscript(p)
    \/ WriteTranscriptTorn(p)
    \/ WriteSegments(p)
    \/ WriteSegmentsTorn(p)
    \/ Annotate(p)
    \/ AnnotateTorn(p)
    \/ Crash(p)

Next == \E p \in Procs : Step(p)

Spec == Init /\ [][Next]_vars

\* ------------------------------------- two calls of transcribe_audio at once
\* Two recordings, a.wav and a_b.wav, each shorter than one chunk, and two
\* threads that call transcribe_audio; nothing processed yet.
InitPar ==
    /\ clock = 0
    /\ runs = 0
    /\ audio \in [Stems -> {[dur |-> Quarter, silent |-> FALSE]}]
    /\ EmptyDisk
    /\ NoHistory
    /\ run = [p \in Threads |-> IdleRun]
    /\ NoDiarization
    /\ NoAlignment
    /\ NoTaskList

\* The steps of a call that nothing interrupts.
StepPar(p) ==
    \/ \E src \in DOMAIN audio, flag \in BOOLEAN, now \in clock..MaxTime :
           Invoke(p, src, flag, now)
    \/ Prepare(p)
    \/ SplitCheck(p)
    \/ Decode(p)
    \/ ExportChunk(p)
    \/ WriteManifest(p)
    \/ LoadChunk(p)
    \/ EngineCall(p)
    \/ SaveText(p)
    \/ SaveSegments(p)
    \/ WriteTranscript(p)
    \/ WriteSegments(p)
    \/ Annotate(p)

NextPar == \E p \in Threads : StepPar(p)

SpecPar == InitPar /\ [][NextPar]_vars

\* ----------------------------------------------- _find_existing_task alone
\* Any content of data/temp and data/output: each task directory with no
\* transcript, an empty one, a blank one or a real one.
InitFind ==
    /\ clock = 0
    /\ runs = 0
    /\ audio \in [Stems -> {[dur |-> Quarter, silent |-> FALSE]}]
    /\ tempDirs \in SUBSET TaskNames
    /\ outDirs = tempDirs
    /\ transcript \in [TaskNames -> {Absent, File(<<>>), File(<<NL>>), File(<<"s0">>)}]
    /\ \A t \in TaskNames : Exists(transcript[t]) => t \in tempDirs
    /\ inputCopy = {}
    /\ chunkFile = NoChunkFiles
    /\ manifest = NoFiles
    /\ textRes = NoChunkFiles
    /\ segRes = NoChunkFiles
    /\ segmentsOut = NoFiles
    /\ annotated = NoFiles
    /\ NoHistory
    /\ run = [p \in Procs |-> IdleRun]
    /\ NoDiarization
    /\ NoAlignment
    /\ NoTaskList

\* Line 218: existing_task = _find_existing_task(file_name)
FindCall(p, file_name) ==
    /\ run[p].pc = "idle"
    /\ run' = [run EXCEPT ![p] = [IdleRun EXCEPT !.pc = "found", !.src = file_name,
                                      !.task = _find_existing_task(file_name)]]
    /\ UNCHANGED <<diarization, alignment, clock, runs, audio, disk, splitRet, usedFlags, lastFail, tasklist>>

NextFind == \E p \in Procs, file_name \in Stems : FindCall(p, file_name)

SpecFind == InitFind /\ [][NextFind]_vars

\* ================================================== diarizer.py: the cache
SPEAKER_A == "SPEAKER_00"

SPEAKER_B == "SPEAKER_01"

Interval(start, end, speaker) == [start |-> start, end |-> end, speaker |-> speaker]

\* What the diarization engine may return for a recording: nobody speaking,
\* or two speakers one after the other (times in milliseconds).
Diarizations ==
    {<<>>, <<Interval(0, 2500, SPEAKER_A), Interval(2500, 4000, SPEAKER_B)>>}

\* int(stat.st_mtime)
int(st_mtime) == st_mtime.sec

\* f"{name}_{stat.st_size}_{int(stat.st_mtime)}"
_get_cache_key(audio_path) ==
    <<audio_path, stat[audio_path].st_size, int(stat[audio_path].st_mtime)>>

\* config.TEMP_DIR / task_name / "diarization_cache.json"
_get_cache_path(audio_path, task_name) == task_name

\* The JSON object of a cache file; a field that is not there is None.
Entry(cache_key, segments) == [cache_key |-> cache_key, segments |-> segments]

\* Mutant: a cut-off file is read as far as it goes.
load_cut_off_file(audio_path, task_name) ==
    LET f == cache[_get_cache_path(audio_path, task_name)]
    IN IF f.st = "absent" \/ f.data = <<>> THEN None
       ELSE IF f.data[1].cache_key = Some(_get_cache_key(audio_path))
            THEN f.data[1].segments
            ELSE None

\* Mutant: an entry without its "segments" field is read as an empty list.
load_segments_defaulted(audio_path, task_name) ==
    LET f == cache[_get_cache_path(audio_path, task_name)]
    IN IF f.st # "ok" THEN None
       ELSE IF f.data[1].cache_key = Some(_get_cache_key(audio_path))
            THEN (IF f.data[1].segments = None THEN Some(<<>>) ELSE f.data[1].segments)
            ELSE None

\* None, or Some(segments).  A file that json.loads rejects and an object
\* without "segments" raise inside the try, and the except returns None.
load_diarization_cache(audio_path, task_name) ==
    LET f == cache[_get_cache_path(audio_path, task_name)]
    IN IF ~Exists(f) THEN None
       ELSE IF f.st = "torn" THEN None
       ELSE IF f.data[1].cache_key = Some(_get_cache_key(audio_path))
            THEN f.data[1].segments
            ELSE None

\* The text save_diarization_cache writes.
CacheData(audio_path, segments) ==
    Entry(Some(_get_cache_key(audio_path)), Some(segments))

DIdle(p) == dcall[p].pc \in {"idle", "done", "failed"}

\* The caller builds task_name from the file's stem and the clock and calls
\* diarize_audio.
DInvoke(p, src, now) ==
    /\ DIdle(p)
    /\ runs < MaxRuns
    /\ runs' = runs + 1
    /\ clock' = now
    /\ dcall' = [dcall EXCEPT ![p] =
           [IdleCall EXCEPT !.pc = "load", !.src = src, !.task = TaskName(src, now),
                            !.broken = dhist.broken[src],
                            !.completed = dhist.completed[src]]]
    /\ UNCHANGED <<audio, disk, run, splitRet, usedFlags, lastFail,
                   stat, cache, dhist, alignment, tasklist>>

\* Line 101: cached = load_diarization_cache(audio_path, task_name); the
\* cache directory is made on the way.
DLoad(p) ==
    /\ dcall[p].pc = "load"
    /\ LET got == load_diarization_cache(dcall[p].src, dcall[p].task)
       IN dcall' = [dcall EXCEPT ![p].pc = "check", ![p].cached = got,
                                 ![p].hit = (got # None),
                                 ![p].seen = [stat |-> stat[dcall[p].src],
                                              entry |-> cache[dcall[p].task],
                                              saved |-> dhist.saved[dcall[p].task]]]
    /\ tempDirs' = tempDirs \cup {dcall[p].task}
    /\ UNCHANGED <<clock, runs, audio, outDirs, chunkFile, manifest, textRes, segRes,
                   transcript, segmentsOut, annotated, inputCopy,
                   run, splitRet, usedFlags, lastFail, stat, cache, dhist, alignment, tasklist>>

\* Mutant: the cached list is found and the engine is run all the same.
DReturnCachedAndGoOn(p) ==
    /\ dcall[p].pc = "check"
    /\ dcall[p].cached # None
    /\ dcall' = [dcall EXCEPT ![p].cached = None]
    /\ UNCHANGED <<clock, runs, audio, disk, run, splitRet, usedFlags, lastFail,
                   stat, cache, dhist, alignment, tasklist>>

\* Lines 102-108: if cached is not None: return cached
DReturnCached(p) ==
    /\ dcall[p].pc = "check"
    /\ dcall[p].cached # None
    /\ dcall' = [dcall EXCEPT ![p].pc = "done", ![p].ret = dcall[p].cached[1]]
    /\ dhist' = [dhist EXCEPT !.completed[dcall[p].src] =
                     [some |-> TRUE, task |-> dcall[p].task, stat |-> stat[dcall[p].src]]]
    /\ UNCHANGED <<clock, runs, audio, disk, run, splitRet, usedFlags, lastFail,
                   stat, cache, alignment, tasklist>>

\* Lines 110-152: the pipeline is loaded and run over the file, and its
\* turns, one of `results`, become the segment list.
Diarize(p, results) ==
    /\ dcall[p].pc = "check"
    /\ dcall[p].cached = None
    /\ \E L \in results :
           dcall' = [dcall EXCEPT ![p].pc = "save", ![p].segments = L,
                                  ![p].called = TRUE]
    /\ UNCHANGED <<clock, runs, audio, disk, run, splitRet, usedFlags, lastFail,
                   stat, cache, dhist, alignment, tasklist>>

DEngine(p) == Diarize(p, Diarizations)

Broken(p) ==
    [dhist EXCEPT !.broken[dcall[p].src] =
        [some |-> TRUE, task |-> dcall[p].task, stat |-> dcall[p].seen.stat]]

\* Lines 110-152: loading or running the pipeline raises.
DEngineFail(p) ==
    /\ dcall[p].pc = "check"
    /\ dcall[p].cached = None
    /\ dcall' = [dcall EXCEPT ![p].pc = "failed", ![p].called = TRUE]
    /\ dhist' = Broken(p)
    /\ UNCHANGED <<clock, runs, audio, disk, run, splitRet, usedFlags, lastFail,
                   stat, cache, alignment, tasklist>>

\* Line 155 and the return: save_diarization_cache writes the entry.
DSave(p) ==
    /\ dcall[p].pc = "save"
    /\ cache' = [cache EXCEPT ![_get_cache_path(dcall[p].src, dcall[p].task)] =
                     File(<<CacheData(dcall[p].src, dcall[p].segments)>>)]
    /\ dcall' = [dcall EXCEPT ![p].pc = "done", ![p].wrote = TRUE,
                              ![p].ret = dcall[p].segments]
    /\ dhist' = [dhist EXCEPT
                     !.saved[dcall[p].task] =
                         [some |-> TRUE, stat |-> stat[dcall[p].src],
                          segments |-> dcall[p].segments],
                     !.broken[dcall[p].src] = NoCall,
                     !.completed[dcall[p].src] =
                         [some |-> TRUE, task |-> dcall[p].task, stat |-> stat[dcall[p].src]]]
    /\ UNCHANGED <<clock, runs, audio, disk, run, splitRet, usedFlags, lastFail,
                   stat, alignment, tasklist>>

\* The process is killed inside write_text: the file holds the head of the
\* JSON text, the key and the segments but for the last one.
DSaveTorn(p) ==
    /\ dcall[p].pc = "save"
    /\ cache' = [cache EXCEPT ![_get_cache_path(dcall[p].src, dcall[p].task)] =
                     Torn(<<Entry(Some(_get_cache_key(dcall[p].src)),
                                  Some(SubSeq(dcall[p].segments, 1,
                                              Len(dcall[p].segments) - 1)))>>)]
    /\ dcall' = [dcall EXCEPT ![p] = IdleCall]
    /\ dhist' = [Broken(p) EXCEPT !.saved[dcall[p].task] = NoSave]
    /\ UNCHANGED <<clock, runs, audio, disk, run, splitRet, usedFlags, lastFail,
                   stat, alignment, tasklist>>

\* The process is killed between two steps of the call.
DCrash(p) ==
    /\ dcall[p].pc \in {"load", "check", "save"}
    /\ dcall' = [dcall EXCEPT ![p] = IdleCall]
    /\ dhist' = IF dcall[p].pc = "save" \/ (dcall[p].pc = "check" /\ dcall[p].cached = None)
              THEN Broken(p) ELSE dhist
    /\ UNCHANGED <<clock, runs, audio, disk, run, splitRet, usedFlags, lastFail,
                   stat, cache, alignment, tasklist>>

\* Somebody rewrites the audio file: its size, its modification time or both
\* are different afterwards.
Modify(src) ==
    /\ dhist.edits < MaxEdits
    /\ \E st \in Stats \ {stat[src]} : stat' = [stat EXCEPT ![src] = st]
    /\ dhist' = [dhist EXCEPT !.edits = @ + 1]
    /\ UNCHANGED <<clock, runs, audio, disk, run, splitRet, usedFlags, lastFail,
                   cache, dcall, alignment, tasklist>>

\* Cache files that no run of this program left behind: text that is not
\* JSON, an object without "cache_key", an object without "segments".
Malformed ==
    {Torn(<<>>),
     File(<<Entry(None, Some(<<Interval(0, 2500, SPEAKER_A)>>))>>),
     File(<<Entry(Some(<<StemA, Stat0.st_size, int(Stat0.st_mtime)>>), None)>>)}

\* One recording, a.wav; the task directory of the first second holds no
\* cache file or a malformed one.
InitDiar ==
    /\ clock = 0
    /\ runs = 0
    /\ audio \in [{StemA} -> {[dur |-> Quarter, silent |-> FALSE]}]
    /\ stat = [s \in {StemA} |-> Stat0]
    /\ cache \in [TaskNames -> {Absent} \cup Malformed]
    /\ \A t \in TaskNames : Exists(cache[t]) => t = TaskName(StemA, 0)
    /\ tempDirs = {t \in TaskNames : Exists(cache[t])}
    /\ outDirs = {}
    /\ inputCopy = {}
    /\ chunkFile = NoChunkFiles
    /\ manifest = NoFiles
    /\ textRes = NoChunkFiles
    /\ segRes = NoChunkFiles
    /\ transcript = NoFiles
    /\ segmentsOut = NoFiles
    /\ annotated = NoFiles
    /\ NoHistory
    /\ run = [p \in Procs |-> IdleRun]
    /\ dcall = [p \in Procs |-> IdleCall]
    /\ dhist = NoDHist
    /\ NoAlignment
    /\ NoTaskList

StepDiar(p) ==
    \/ \E src \in DOMAIN stat, now \in clock..MaxTime : DInvoke(p, src, now)
    \/ DLoad(p)
    \/ DReturnCached(p)
    \/ DEngine(p)
    \/ DEngineFail(p)
    \/ DSave(p)
    \/ DSaveTorn(p)
    \/ DCrash(p)

NextDiar ==
    \/ \E p \in Procs : StepDiar(p)
    \/ \E src \in DOMAIN stat : Modify(src)

SpecDiar == InitDiar /\ [][NextDiar]_vars

\* ============================== diarizer.py: two instances, one cache entry
Instances == {1, 2}

\* Two runs of the pipeline over one recording find the same two turns and
\* number the two speakers either way round.
Reruns ==
    {<<Interval(0, 2500, SPEAKER_A), Interval(2500, 4000, SPEAKER_B)>>,
     <<Interval(0, 2500, SPEAKER_B), Interval(2500, 4000, SPEAKER_A)>>}

Hole == [part |-> "hole"]

\* The JSON text of an entry as write_text hands it to the file, a buffer at
\* a time: the head with the key and all segments but the last, and the tail.
Blocks(entry) ==
    LET L == entry.segments[1]
    IN IF L = <<>> THEN <<[part |-> "whole", key |-> entry.cache_key[1], segs |-> <<>>]>>
       ELSE <<[part |-> "head", key |-> entry.cache_key[1],
               segs |-> SubSeq(L, 1, Len(L) - 1)],
              [part |-> "tail", segs |-> <<L[Len(L)]>>]>>

\* json.loads of the bytes of a file: the bytes make an entry when they are
\* one whole text, or a head followed by a tail.
Parsed(raw) ==
    IF Len(raw) = 1 /\ raw[1].part = "whole"
    THEN Some(Entry(Some(raw[1].key), Some(raw[1].segs)))
    ELSE IF Len(raw) = 2 /\ raw[1].part = "head" /\ raw[2].part = "tail"
    THEN Some(Entry(Some(raw[1].key), Some(raw[1].segs \o raw[2].segs)))
    ELSE None

\* The bytes of a cache file, and the file that holds given bytes.
Raw(f) == IF f.st = "ok" THEN Blocks(f.data[1]) ELSE f.data

FileOf(raw) == IF Parsed(raw) # None THEN File(<<Parsed(raw)[1]>>) ELSE Torn(raw)

\* write(2) at an offset: the bytes before it stay, a gap is filled with
\* zeros, the bytes after the block stay.
WriteAt(raw, i, block) ==
    [k \in 1..(IF Len(raw) > i THEN Len(raw) ELSE i) |->
        IF k = i THEN block ELSE IF k <= Len(raw) THEN raw[k] ELSE Hole]

\* save_diarization_cache, lines 75-83 and the open of write_text: the text
\* is built and the file is opened for writing, which empties it.
DOpen(p) ==
    /\ dcall[p].pc = "save"
    /\ cache' = [cache EXCEPT ![_get_cache_path(dcall[p].src, dcall[p].task)] = FileOf(<<>>)]
    /\ dcall' = [dcall EXCEPT ![p].pc = "write", ![p].pos = 0,
                              ![p].text = Blocks(CacheData(dcall[p].src, dcall[p].segments))]
    /\ UNCHANGED <<clock, runs, audio, disk, run, splitRet, usedFlags, lastFail,
                   stat, dhist, alignment, tasklist>>

\* write_text, lines 83-85: the next buffer goes to the file at the position
\* of this writer.
DWriteBlock(p) ==
    /\ dcall[p].pc = "write"
    /\ dcall[p].pos < Len(dcall[p].text)
    /\ LET path == _get_cache_path(dcall[p].src, dcall[p].task)
       IN cache' = [cache EXCEPT ![path] =
              FileOf(WriteAt(Raw(cache[path]), dcall[p].pos + 1,
                             dcall[p].text[dcall[p].pos + 1]))]
    /\ dcall' = [dcall EXCEPT ![p].pos = @ + 1]
    /\ UNCHANGED <<clock, runs, audio, disk, run, splitRet, usedFlags, lastFail,
                   stat, dhist, alignment, tasklist>>

\* The file is closed and diarize_audio returns its segments.
DClose(p) ==
    /\ dcall[p].pc = "write"
    /\ dcall[p].pos = Len(dcall[p].text)
    /\ dcall' = [dcall EXCEPT ![p].pc = "done", ![p].wrote = TRUE,
                              ![p].ret = dcall[p].segments]
    /\ dhist' = [dhist EXCEPT
                     !.saved[dcall[p].task] =
                         [some |-> TRUE, stat |-> stat[dcall[p].src],
                          segments |-> dcall[p].segments],
                     !.completed[dcall[p].src] =
                         [some |-> TRUE, task |-> dcall[p].task, stat |-> stat[dcall[p].src]]]
    /\ UNCHANGED <<clock, runs, audio, disk, run, splitRet, usedFlags, lastFail,
                   stat, cache, alignment, tasklist>>

\* One recording, no cache file, two pipeline instances.
InitCache ==
    /\ clock = 0
    /\ runs = 0
    /\ audio \in [{StemA} -> {[dur |-> Quarter, silent |-> FALSE]}]
    /\ EmptyDisk
    /\ NoHistory
    /\ run = [p \in Procs |-> IdleRun]
    /\ stat = [s \in {StemA} |-> Stat0]
    /\ cache = [t \in TaskNames |-> Absent]
    /\ dcall = [p \in Instances |-> IdleCall]
    /\ dhist = NoDHist
    /\ NoAlignment
    /\ NoTaskList

NextCache ==
    \E p \in Instances :
        \/ \E src \in DOMAIN stat, now \in clock..MaxTime : DInvoke(p, src, now)
        \/ DLoad(p)
        \/ DReturnCached(p)
        \/ Diarize(p, Reruns)
        \/ DOpen(p)
        \/ DWriteBlock(p)
        \/ DClose(p)

SpecCache == InitCache /\ [][NextCache]_vars

\* ================================================= diarizer.py: the aligner
Max(a, b) == IF a >= b THEN a ELSE b

\* max(0, min(end, seg["end"]) - max(start, seg["start"]))
Overlap(start, end, seg) == Max(0, Min(end, seg.end) - Max(start, seg.start))

\* Mutant: an interval that overlaps as much as the best so far replaces it.
RECURSIVE ScanLastWins(_, _, _, _, _)
ScanLastWins(segs, start, end, best_speaker, best_overlap) ==
    IF segs = <<>> THEN best_speaker
    ELSE LET overlap == Overlap(start, end, Head(segs))
         IN IF overlap >= best_overlap
            THEN ScanLastWins(Tail(segs), start, end, Head(segs).speaker, overlap)
            ELSE ScanLastWins(Tail(segs), start, end, best_speaker, best_overlap)

\* The loop of find_speaker over the intervals still to be seen.
RECURSIVE Scan(_, _, _, _, _)
Scan(segs, start, end, best_speaker, best_overlap) ==
    IF segs = <<>> THEN best_speaker
    ELSE LET overlap == Overlap(start, end, Head(segs))
         IN IF overlap > best_overlap
            THEN Scan(Tail(segs), start, end, Head(segs).speaker, overlap)
            ELSE Scan(Tail(segs), start, end, best_speaker, best_overlap)

find_speaker(segs, start, end) == Scan(segs, start, end, UNKNOWN, 0)

\* The loop over whisper_segments: a line is closed when the speaker changes
\* and at the end.
RECURSIVE AlignLines(_, _, _, _, _)
AlignLines(segments, segs, current_speaker, current_text, lines) ==
    IF segments = <<>>
    THEN IF current_speaker # None /\ current_text # <<>>
         THEN Append(lines, AnnotatedLine(current_speaker[1], current_text))
         ELSE lines
    ELSE LET seg == Head(segments)
             speaker == find_speaker(segs, seg.start, seg.end)
         IN IF Some(speaker) # current_speaker
            THEN AlignLines(Tail(segments), segs, Some(speaker), <<seg.text>>,
                     IF current_speaker # None /\ current_text # <<>>
                     THEN Append(lines, AnnotatedLine(current_speaker[1], current_text))
                     ELSE lines)
            ELSE AlignLines(Tail(segments), segs, current_speaker,
                     Append(current_text, seg.text), lines)

align_transcript_with_speakers(segments, segs) ==
    Join(AlignLines(segments, segs, None, <<>>, <<>>), <<NL, NL>>)

\* Two sentences of two seconds, and the speaker intervals between the
\* points 0 s, 1 s, 2.5 s and 4 s of the recording (times in milliseconds).
Sentences ==
    {[start |-> 0, end |-> 2000, text |-> <<"s0">>],
     [start |-> 2000, end |-> 4000, text |-> <<"s1">>]}

Points == {0, 1000, 2500, 4000}

Intervals ==
    {iv \in {Interval(a, b, sp) : a \in Points, b \in Points, sp \in {SPEAKER_A, SPEAKER_B}} :
        iv.start < iv.end}

SeqsUpTo(S, n) == UNION {[1..k -> S] : k \in 0..n}

InitAlign ==
    /\ clock = 0
    /\ runs = 0
    /\ audio \in [{StemA} -> {[dur |-> Quarter, silent |-> FALSE]}]
    /\ EmptyDisk
    /\ NoHistory
    /\ run = [p \in Procs |-> IdleRun]
    /\ NoDiarization
    /\ whisper_segments \in SeqsUpTo(Sentences, Cardinality(Sentences))
    /\ diarization_segments \in SeqsUpTo(Intervals, MaxIntervals)
    /\ aligned = [pc |-> "idle", text |-> <<>>, labels |-> <<>>, lines |-> <<>>]
    /\ NoTaskList

\* The caller has both lists and calls align_transcript_with_speakers; the
\* labels are what find_speaker returned for each sentence.
Align ==
    /\ aligned.pc = "idle"
    /\ aligned' =
           [pc |-> "done",
            text |-> align_transcript_with_speakers(whisper_segments, diarization_segments),
            labels |-> [i \in 1..Len(whisper_segments) |->
                           find_speaker(diarization_segments,
                                        whisper_segments[i].start, whisper_segments[i].end)],
            lines |-> AlignLines(whisper_segments, diarization_segments, None, <<>>, <<>>)]
    /\ UNCHANGED <<clock, runs, audio, disk, run, splitRet, usedFlags, lastFail,
                   diarization, whisper_segments, diarization_segments, tasklist>>

NextAlign == Align

SpecAlign == InitAlign /\ [][NextAlign]_vars

\* --------------------------------------------------------- the run-merge
\* Sentences as segments.json holds them, each with a speaker label.
Labelled ==
    {[start |-> s.start, end |-> s.end, text |-> s.text, speaker |-> sp] :
        s \in Sentences, sp \in {SPEAKER_A, SPEAKER_B, UNKNOWN}}

\* Any list of labelled sentences, and what the diarization engine may have
\* returned for the recording.
InitMerge ==
    /\ clock = 0
    /\ runs = 0
    /\ audio \in [{StemA} -> {[dur |-> Quarter, silent |-> FALSE]}]
    /\ EmptyDisk
    /\ NoHistory
    /\ run = [p \in Procs |-> IdleRun]
    /\ NoDiarization
    /\ whisper_segments \in SeqsUpTo(Labelled, MaxSentences)
    /\ diarization_segments \in Diarizations
    /\ aligned = [pc |-> "idle", text |-> <<>>, labels |-> <<>>, lines |-> <<>>]
    /\ NoTaskList

\* transcribe_audio calls _build_annotated_text over the list; the labels
\* are the ones the sentences carry.
Build ==
    /\ aligned.pc = "idle"
    /\ aligned' =
           [pc |-> "built",
            text |-> _build_annotated_text(whisper_segments),
            labels |-> [i \in 1..Len(whisper_segments) |-> whisper_segments[i].speaker],
            lines |-> BuildLines(whisper_segments, None, <<>>, <<>>)]
    /\ UNCHANGED <<clock, runs, audio, disk, run, splitRet, usedFlags, lastFail,
                   diarization, whisper_segments, diarization_segments, tasklist>>

NextMerge == Align \/ Build

SpecMerge == InitMerge /\ [][NextMerge]_vars

\* ======================================== handlers.py, main.py: the batch
\* What the observer notes about one file of the batch.
Untouched ==
    [started |-> FALSE, diarization |-> "none", transcription |-> "none",
     recorded |-> FALSE, before |-> EmptyDict, after |-> EmptyDict]

\* completed_tasks[name] = task
Put(dict, name, task) ==
    [n \in DOMAIN dict \cup {name} |-> IF n = name THEN task ELSE dict[n]]

\* del completed_tasks[name]
Del(dict, name) == [n \in DOMAIN dict \ {name} |-> dict[n]]

OldRecord == [output_dir |-> "old", summary |-> "", timestamp |-> "t0"]

NewRecord == [output_dir |-> "new", summary |-> "s", timestamp |-> "t1"]

\* save_tasks: the three fields of every record, the missing ones as "".
Field(task, f) == IF f \in DOMAIN task THEN task[f] ELSE ""

Serialize(dict) ==
    [n \in DOMAIN dict |->
        [output_dir |-> dict[n].output_dir,
         summary |-> Field(dict[n], "summary"),
         timestamp |-> Field(dict[n], "timestamp")]]

\* Task lists of an earlier session over files of the batch's names.
InitBatch ==
    /\ clock = 0
    /\ runs = 0
    /\ audio \in [{StemA} -> {[dur |-> Quarter, silent |-> FALSE]}]
    /\ EmptyDisk
    /\ NoHistory
    /\ run = [p \in Procs |-> IdleRun]
    /\ NoDiarization
    /\ NoAlignment
    /\ batch = IdleBatch
    /\ \E S \in SUBSET (1..MaxFiles) : completed_tasks = [n \in S |-> OldRecord]
    /\ tasks_db = File(<<Serialize(completed_tasks)>>)
    /\ lock = None
    /\ thr = [t \in Threads |-> IdleThread]

\* process_files is called with a batch of files (file k is named k), from
\* handlers.py or from main.py with its two diarization settings.
BStart(variant, files, enable_diarization, diarization_fallback) ==
    /\ batch.pc = "idle"
    /\ batch' = [IdleBatch EXCEPT !.pc = "file", !.variant = variant, !.files = files,
                                  !.file_idx = 1,
                                  !.enable_diarization = enable_diarization,
                                  !.diarization_fallback = diarization_fallback,
                                  !.log = [k \in 1..files |-> Untouched],
                                  !.first = completed_tasks]
    /\ UNCHANGED <<clock, runs, audio, disk, run, splitRet, usedFlags, lastFail,
                   diarization, alignment, completed_tasks, tasks_db, lock, thr>>

\* for file_idx, file in enumerate(files): the next file, or the end.
BFile ==
    /\ batch.pc = "file"
    /\ IF batch.file_idx > batch.files
       THEN batch' = [batch EXCEPT !.pc = "returned"]
       ELSE batch' = [batch EXCEPT
                !.pc = IF batch.variant = "main" /\ batch.enable_diarization
                       THEN "diarize" ELSE "transcribe",
                !.log[batch.file_idx].started = TRUE,
                !.log[batch.file_idx].before = completed_tasks]
    /\ UNCHANGED <<clock, runs, audio, disk, run, splitRet, usedFlags, lastFail,
                   diarization, alignment, completed_tasks, tasks_db, lock, thr>>

\* main.py lines 141-148: diarize_audio returns.
BDiarize ==
    /\ batch.pc = "diarize"
    /\ batch' = [batch EXCEPT !.pc = "transcribe",
                              !.log[batch.file_idx].diarization = "ok"]
    /\ UNCHANGED <<clock, runs, audio, disk, run, splitRet, usedFlags, lastFail,
                   diarization, alignment, completed_tasks, tasks_db, lock, thr>>

\* main.py lines 149-161: diarize_audio raises; process_files returns or
\* goes on with the plain transcription, as diarization_fallback says.
BDiarizeFail ==
    /\ batch.pc = "diarize"
    /\ batch' = [batch EXCEPT
           !.pc = IF batch.diarization_fallback = "stop" THEN "returned" ELSE "transcribe",
           !.log[batch.file_idx].diarization = "failed",
           !.log[batch.file_idx].after = completed_tasks]
    /\ UNCHANGED <<clock, runs, audio, disk, run, splitRet, usedFlags, lastFail,
                   diarization, alignment, completed_tasks, tasks_db, lock, thr>>

\* transcribe_audio returns.
BTranscribe ==
    /\ batch.pc = "transcribe"
    /\ batch' = [batch EXCEPT !.pc = "record",
                              !.log[batch.file_idx].transcription = "ok"]
    /\ UNCHANGED <<clock, runs, audio, disk, run, splitRet, usedFlags, lastFail,
                   diarization, alignment, completed_tasks, tasks_db, lock, thr>>

\* Mutant: a failed transcription ends the batch.
BTranscribeFailReturns ==
    /\ batch.pc = "transcribe"
    /\ batch' = [batch EXCEPT !.pc = "returned",
                              !.log[batch.file_idx].transcription = "failed",
                              !.log[batch.file_idx].after = completed_tasks]
    /\ UNCHANGED <<clock, runs, audio, disk, run, splitRet, usedFlags, lastFail,
                   diarization, alignment, completed_tasks, tasks_db, lock, thr>>

\* transcribe_audio raises: except ...: continue
BTranscribeFail ==
    /\ batch.pc = "transcribe"
    /\ batch' = [batch EXCEPT !.pc = "file", !.file_idx = @ + 1,
                              !.log[batch.file_idx].transcription = "failed",
                              !.log[batch.file_idx].after = completed_tasks]
    /\ UNCHANGED <<clock, runs, audio, disk, run, splitRet, usedFlags, lastFail,
                   diarization, alignment, completed_tasks, tasks_db, lock, thr>>

\* The alignment and the summary catch their own errors; then the record is
\* put into the task list and the list is saved.
BRecord ==
    /\ batch.pc = "record"
    /\ lock = None
    /\ completed_tasks' = Put(completed_tasks, batch.file_idx, NewRecord)
    /\ tasks_db' = File(<<Serialize(completed_tasks')>>)
    /\ batch' = [batch EXCEPT !.pc = "file", !.file_idx = @ + 1,
                              !.log[batch.file_idx].recorded = TRUE,
                              !.log[batch.file_idx].after = completed_tasks']
    /\ UNCHANGED <<clock, runs, audio, disk, run, splitRet, usedFlags, lastFail,
                   diarization, alignment, lock, thr>>

NextBatch ==
    \/ \E variant \in {"handlers", "main"}, files \in 1..MaxFiles,
          enable_diarization \in BOOLEAN, diarization_fallback \in {"stop", "plain"} :
           /\ variant = "handlers" => (~enable_diarization /\ diarization_fallback = "plain")
           /\ BStart(variant, files, enable_diarization, diarization_fallback)
    \/ BFile
    \/ BDiarize
    \/ BDiarizeFail
    \/ BTranscribe
    \/ BTranscribeFail
    \/ BRecord

SpecBatch == InitBatch /\ [][NextBatch]_vars

\* ================================================ state.py: the task list
TaskKeys == {"a.wav", "b.wav"}

\* Any task list of an earlier session, saved.
InitTasks ==
    /\ clock = 0
    /\ runs = 0
    /\ audio \in [{StemA} -> {[dur |-> Quarter, silent |-> FALSE]}]
    /\ EmptyDisk
    /\ NoHistory
    /\ run = [p \in Procs |-> IdleRun]
    /\ NoDiarization
    /\ NoAlignment
    /\ batch = IdleBatch
    /\ \E S \in SUBSET TaskKeys : completed_tasks = [n \in S |-> OldRecord]
    /\ tasks_db = File(<<Serialize(completed_tasks)>>)
    /\ lock = None
    /\ thr = [t \in Threads |-> IdleThread]

\* A thread calls upsert_task, delete_task_by_name, get_task_names or
\* get_task.
TCall(t, op, name, task) ==
    /\ thr[t].pc \in {"idle", "done"}
    /\ runs < MaxRuns
    /\ runs' = runs + 1
    /\ thr' = [thr EXCEPT ![t] = [IdleThread EXCEPT !.pc = "acquire", !.op = op,
                                      !.name = name, !.task = task]]
    /\ UNCHANGED <<clock, audio, disk, run, splitRet, usedFlags, lastFail,
                   diarization, alignment, batch, completed_tasks, tasks_db, lock>>

\* Mutant: the thread goes on without waiting for the lock.
TAcquireUnlocked(t) ==
    /\ thr[t].pc = "acquire"
    /\ lock' = Some(t)
    /\ thr' = [thr EXCEPT ![t].pc = "body", ![t].seen = completed_tasks]
    /\ UNCHANGED <<clock, runs, audio, disk, run, splitRet, usedFlags, lastFail,
                   diarization, alignment, batch, completed_tasks, tasks_db>>

\* with _tasks_lock:
TAcquire(t) ==
    /\ thr[t].pc = "acquire"
    /\ lock = None
    /\ lock' = Some(t)
    /\ thr' = [thr EXCEPT ![t].pc = "body", ![t].seen = completed_tasks]
    /\ UNCHANGED <<clock, runs, audio, disk, run, splitRet, usedFlags, lastFail,
                   diarization, alignment, batch, completed_tasks, tasks_db>>

\* upsert_task: completed_tasks[name] = task
TUpsert(t) ==
    /\ thr[t].pc = "body" /\ thr[t].op = "upsert_task"
    /\ completed_tasks' = Put(completed_tasks, thr[t].name, thr[t].task[1])
    /\ thr' = [thr EXCEPT ![t].pc = "save"]
    /\ UNCHANGED <<clock, runs, audio, disk, run, splitRet, usedFlags, lastFail,
                   diarization, alignment, batch, tasks_db, lock>>

\* delete_task_by_name: return False out of the lock if the name is not
\* there, else del completed_tasks[name]
TDelete(t) ==
    /\ thr[t].pc = "body" /\ thr[t].op = "delete_task_by_name"
    /\ IF thr[t].name \notin DOMAIN completed_tasks
       THEN /\ thr' = [thr EXCEPT ![t].pc = "done", ![t].ret = Some(FALSE)]
            /\ lock' = None
            /\ UNCHANGED completed_tasks
       ELSE /\ completed_tasks' = Del(completed_tasks, thr[t].name)
            /\ thr' = [thr EXCEPT ![t].pc = "save"]
            /\ UNCHANGED lock
    /\ UNCHANGED <<clock, runs, audio, disk, run, splitRet, usedFlags, lastFail,
                   diarization, alignment, batch, tasks_db>>

\* get_task_names: list(completed_tasks.keys()); get_task:
\* completed_tasks.get(name); both leave the lock with the value.
TRead(t) ==
    /\ thr[t].pc = "body" /\ thr[t].op \in {"get_task_names", "get_task"}
    /\ thr' = [thr EXCEPT ![t].pc = "done",
                          ![t].ret = IF thr[t].op = "get_task_names"
                                     THEN Some(DOMAIN completed_tasks)
                                     ELSE IF thr[t].name \in DOMAIN completed_tasks
                                          THEN Some(completed_tasks[thr[t].name])
                                          ELSE None]
    /\ lock' = None
    /\ UNCHANGED <<clock, runs, audio, disk, run, splitRet, usedFlags, lastFail,
                   diarization, alignment, batch, completed_tasks, tasks_db>>

\* save_tasks, lines 46-52: the dictionary is copied field by field.
TSerialize(t) ==
    /\ thr[t].pc = "save"
    /\ thr' = [thr EXCEPT ![t].pc = "write", ![t].serializable = Serialize(completed_tasks)]
    /\ UNCHANGED <<clock, runs, audio, disk, run, splitRet, usedFlags, lastFail,
                   diarization, alignment, batch, completed_tasks, tasks_db, lock>>

\* save_tasks, lines 53-56: the copy is written, and the function that
\* called save_tasks leaves the lock and returns.
TWrite(t) ==
    /\ thr[t].pc = "write"
    /\ tasks_db' = File(<<thr[t].serializable>>)
    /\ lock' = None
    /\ thr' = [thr EXCEPT ![t].pc = "done",
                          ![t].ret = IF thr[t].op = "delete_task_by_name"
                                     THEN Some(TRUE) ELSE None]
    /\ UNCHANGED <<clock, runs, audio, disk, run, splitRet, usedFlags, lastFail,
                   diarization, alignment, batch, completed_tasks>>

NextTasks ==
    \E t \in Threads :
        \/ \E name \in TaskKeys :
               \/ TCall(t, "upsert_task", name, Some(NewRecord))
               \/ TCall(t, "upsert_task", name, Some([NewRecord EXCEPT !.summary = "s2"]))
               \/ TCall(t, "delete_task_by_name", name, None)
               \/ TCall(t, "get_task", name, None)
        \/ TCall(t, "get_task_names", "", None)
        \/ TAcquire(t)
        \/ TUpsert(t)
        \/ TDelete(t)
        \/ TRead(t)
        \/ TSerialize(t)
        \/ TWrite(t)

SpecTasks == InitTasks /\ [][NextTasks]_vars

\* =================================================================== claims
\* What one uninterrupted run over the whole recording yields: the windows
\* of the recording in order, each recognised once with the run's setting.
NumChunks(src) == (audio[src].dur + chunk_ms - 1) \div chunk_ms

RefResult(src, flag, i) ==
    _parse_funasr_result(
        Generate([src |-> src, start |-> i * chunk_ms,
                  end |-> Min((i + 1) * chunk_ms, audio[src].dur)],
                 audio[src].silent, flag),
        i * CHUNK_DURATION_SECONDS * 1000, flag)

RefTranscript(src, flag) ==
    Join([i \in 1..NumChunks(src) |-> RefResult(src, flag, i - 1).text], <<NL>>)

RefSegments(src, flag) ==
    Concat([i \in 1..NumChunks(src) |-> RefResult(src, flag, i - 1).segments])

\* Both checkpoint files of chunk idx were written to the end.
Committed(task_name, idx) ==
    textRes[task_name][idx].st = "ok" /\ segRes[task_name][idx].st = "ok"

\* The run went through the chunk loop to its return.
Finished(p) == run[p].pc = "done" /\ ~run[p].early

\* C1: a run that returns normally on a task all of whose runs used the same
\* enable_speaker setting, however many earlier runs of the task were killed
\* and wherever, leaves the finalized transcript and the global segment list
\* of an uninterrupted run over the recording.
C1_ResumeEqualsUninterrupted ==
    \A p \in Procs :
        (Finished(p) /\ usedFlags[run[p].task] = {run[p].flag}) =>
            /\ transcript[run[p].task] = File(RefTranscript(run[p].src, run[p].flag))
            /\ segmentsOut[run[p].task] = File(RefSegments(run[p].src, run[p].flag))

\* C1 witness: a three-chunk task resumed after exactly one chunk had been
\* checkpointed has returned (chunk 0 loaded, chunks 1 and 2 recognised).
C1_Witness ==
    \E p \in Procs :
        /\ Finished(p) /\ run[p].resumed
        /\ usedFlags[run[p].task] = {run[p].flag}
        /\ Len(run[p].chunk_paths) = 3
        /\ run[p].calls = <<1, 2>>

\* C2: the engine is called for chunk i of a task only in a state where chunk
\* i is not committed, and a committed checkpoint stays as it is for ever, so
\* no later run calls the engine for it.
C2_EngineOnlyWithoutCheckpoint ==
    [][ /\ \A p \in Procs :
             Len(run'[p].calls) > Len(run[p].calls) =>
                 ~Committed(run[p].task, run[p].idx)
        /\ \A t \in TaskNames, i \in ChunkIdx :
             Committed(t, i) =>
                 /\ textRes'[t][i] = textRes[t][i]
                 /\ segRes'[t][i] = segRes[t][i] ]_vars

\* C2 witness: three chunks, killed after chunk 2 (index 1) was committed;
\* the resumed run returned after exactly one engine call, for chunk 3.
C2_Witness ==
    \E p \in Procs :
        /\ Finished(p) /\ run[p].resumed
        /\ Len(run[p].chunk_paths) = 3
        /\ run[p].calls = <<2>>

\* C3: a call of transcribe_audio fails only because the decoder or the
\* engine failed in that call, never on an artifact that an earlier,
\* terminated call left behind.
C3_NoCrashPoisonsTask ==
    \A p \in Procs : run[p].pc = "failed" => run[p].cause \in {"engine", "decode"}

\* C4: whenever the resume check of chunk i is true, both files of the
\* checkpoint are complete, so that the load returns the saved pair.
C4_CheckpointAtomic ==
    \A t \in TaskNames, i \in ChunkIdx : HasResult(t, i) => Committed(t, i)

\* C5: when the engine call for chunk i has failed, every chunk j < i is
\* committed with the content the run holds, chunk i has no checkpoint and
\* the task no transcript; and the next call on the same file resumes that
\* task and makes its first engine call for chunk i.
C5_EngineFailureResumable ==
    \A p \in Procs :
        /\ (run[p].pc = "failed" /\ run[p].cause = "engine") =>
               LET t == run[p].task
                   i == run[p].idx
               IN /\ \A j \in 0..(i - 1) :
                         /\ Committed(t, j)
                         /\ textRes[t][j].data = run[p].all_texts[j + 1]
                  /\ Concat([j \in 1..i |-> segRes[t][j - 1].data]) = run[p].all_segments
                  /\ ~HasResult(t, i)
                  /\ ~Exists(transcript[t])
        /\ run[p].after.some =>
               /\ run[p].resumed
               /\ run[p].task = run[p].after.task
               /\ run[p].calls # <<>> => run[p].calls[1] = run[p].after.idx

\* C5 witness: the engine failed at the second chunk, and the next call on
\* the file has made its first engine call.
C5_Witness ==
    \E p \in Procs :
        /\ run[p].after.some /\ run[p].after.idx = 1
        /\ run[p].calls # <<>>

\* C6: no call of transcribe_audio works on a task whose finalized
\* transcript was non-empty when the call chose its task name.
C6_CompleteNeverSelected ==
    \A p \in Procs : ~run[p].selComplete

\* C7: _find_existing_task(name) returns the newest unfinished task
\* directory made for the file called name, and nothing when there is none.
C7_FindsNewestUnfinishedOfSource ==
    \A p \in Procs :
        run[p].pc = "found" =>
            LET own == { d \in tempDirs : d.stem = run[p].src /\ Unfinished(d) }
            IN IF own = {} THEN run[p].task = NoTask
               ELSE /\ run[p].task \in own
                    /\ \A d \in own : d.ts <= run[p].task.ts

\* C8: when split_audio is called for a task whose manifest an earlier call
\* wrote, it returns the list that call returned, the manifest and the chunk
\* files stay as they were, and the recording is neither decoded nor exported.
C8_SplitIdempotent ==
    \A p \in Procs :
        (run[p].pre.st = "ok" /\ run[p].pc # "split") =>
            /\ run[p].pc \notin {"decode", "export"}
            /\ ~run[p].decoded
            /\ run[p].exports = 0
            /\ run[p].chunk_paths = splitRet[run[p].task]
            /\ manifest[run[p].task] = run[p].pre
            /\ chunkFile[run[p].task] = run[p].preChunks

\* C8 witness: the second split_audio of a three-chunk task has returned.
C8_Witness ==
    \E p \in Procs :
        /\ run[p].pre.st = "ok" /\ run[p].pc = "loop"
        /\ Len(run[p].chunk_paths) = 3

\* The window of the chunk artifact that the i-th manifest entry names.
ManifestChunk(m, i) ==
    chunkFile[m.chunk_paths[i].task][m.chunk_paths[i].idx].data[1]

\* C9: a manifest lists as many chunks as its total_chunks; for a recording
\* of D > 0 ms they are ceil(D / C) windows of the recording, the first
\* starting at 0, each starting where the one before ends, each but the last
\* C long, the last one not empty, not longer than C and ending at D.
C9_WindowsPartitionSource ==
    \A t \in TaskNames :
        manifest[t].st = "ok" =>
            LET m == manifest[t].data[1]
                n == Len(m.chunk_paths)
                D == audio[m.source_audio].dur
                C == m.chunk_duration_seconds * 1000
            IN /\ m.total_chunks = n
               /\ D > 0 =>
                    /\ n * C >= D /\ (n - 1) * C < D
                    /\ D < C => n = 1
                    /\ \A i \in 1..n :
                          /\ m.chunk_paths[i] = ChunkPath(t, i - 1)
                          /\ chunkFile[t][i - 1].st = "ok"
                          /\ ManifestChunk(m, i).src = m.source_audio
                          /\ ManifestChunk(m, i).start =
                                 (IF i = 1 THEN 0 ELSE ManifestChunk(m, i - 1).end)
                          /\ ManifestChunk(m, i).end > ManifestChunk(m, i).start
                          /\ ManifestChunk(m, i).end - ManifestChunk(m, i).start <= C
                          /\ i < n => ManifestChunk(m, i).end - ManifestChunk(m, i).start = C
                          /\ i = n => ManifestChunk(m, i).end = D

\* C9 witness: the manifest of the 65 minute recording (30, 30, 5 minutes).
C9_Witness ==
    \E t \in TaskNames :
        /\ manifest[t].st = "ok"
        /\ manifest[t].data[1].total_chunks = 3
        /\ ManifestChunk(manifest[t].data[1], 3).end
             - ManifestChunk(manifest[t].data[1], 3).start = 5 * 60 * 1000

\* C10: for a recording of length zero split_audio fails: no manifest and no
\* finalized transcript are written for it and no call on it gets past
\* split_audio.
C10_ZeroLengthRejected ==
    /\ \A t \in TaskNames :
           (t.stem \in DOMAIN audio /\ audio[t.stem].dur = 0) =>
               ~Exists(manifest[t]) /\ ~Exists(transcript[t])
    /\ \A p \in Procs :
           (run[p].src \in DOMAIN audio /\ audio[run[p].src].dur = 0) =>
               run[p].pc \in {"prepare", "split", "decode", "export", "failed"}

\* What the engine hears in the chunk artifact idx of a task; the times it
\* reports do not depend on the speaker setting.
EngineSentences(task_name, idx) ==
    LET chunk == chunkFile[task_name][idx].data[1]
    IN Generate(chunk, audio[chunk.src].silent, FALSE)[1].sentence_info

Shift(idx) == idx * CHUNK_DURATION_SECONDS * 1000

\* C11: every segment of chunk i's checkpoint is an engine sentence of chunk
\* i with i * chunk duration added to its start and to its end, and so lies
\* in chunk i's window of the time line when the engine's start is inside
\* the chunk; every segment of the global list is a segment of some chunk's
\* checkpoint.
C11_GlobalTimestamps ==
    /\ \A t \in TaskNames, i \in ChunkIdx :
           segRes[t][i].st = "ok" =>
               /\ chunkFile[t][i].st = "ok"
               /\ LET segs == segRes[t][i].data
                      sents == EngineSentences(t, i)
                  IN /\ Len(segs) = Len(sents)
                     /\ \A k \in 1..Len(segs) :
                            /\ segs[k].start = sents[k].start + Shift(i)
                            /\ segs[k].end = sents[k].end + Shift(i)
                            /\ (0 <= sents[k].start /\ sents[k].start < chunk_ms) =>
                                   (Shift(i) <= segs[k].start /\ segs[k].start < Shift(i + 1))
    /\ \A t \in TaskNames :
           segmentsOut[t].st = "ok" =>
               \A g \in 1..Len(segmentsOut[t].data) :
                   \E i \in ChunkIdx :
                       /\ segRes[t][i].st = "ok"
                       /\ \E k \in 1..Len(segRes[t][i].data) :
                              segRes[t][i].data[k] = segmentsOut[t].data[g]

\* C11 witness: a resumed run has written a global list whose last segment
\* comes from the third chunk, one hour into the recording.
C11_Witness ==
    \E p \in Procs :
        /\ Finished(p) /\ run[p].resumed /\ run[p].calls # <<>>
        /\ segmentsOut[run[p].task].st = "ok"
        /\ Len(segmentsOut[run[p].task].data) = 5
        /\ segmentsOut[run[p].task].data[5].start = 2 * chunk_ms

\* C12: the global segment list is the chunks' checkpointed lists one after
\* the other in chunk order, and no segment of a chunk starts after a
\* segment of the next chunk.
C12_SegmentsConcatenated ==
    \A t \in TaskNames :
        segmentsOut[t].st = "ok" =>
            /\ manifest[t].st = "ok"
            /\ LET n == manifest[t].data[1].total_chunks
               IN /\ \A i \in 0..(n - 1) : segRes[t][i].st = "ok"
                  /\ segmentsOut[t].data = Concat([i \in 1..n |-> segRes[t][i - 1].data])
                  /\ \A i \in 0..(n - 2) :
                         \A a \in 1..Len(segRes[t][i].data), b \in 1..Len(segRes[t][i + 1].data) :
                             segRes[t][i].data[a].start <= segRes[t][i + 1].data[b].start

\* C12 witness: a global list of three chunks, the first two loaded from
\* their checkpoints and the third recognised in the same run.
C12_Witness ==
    \E p \in Procs :
        /\ Finished(p) /\ run[p].calls = <<2>>
        /\ segmentsOut[run[p].task].st = "ok"
        /\ Len(segmentsOut[run[p].task].data) = 5

\* Number of separators in a text.
RECURSIVE CountNL(_)
CountNL(text) ==
    IF text = <<>> THEN 0
    ELSE (IF Head(text) = NL THEN 1 ELSE 0) + CountNL(Tail(text))

\* The text with its separators taken out.
RECURSIVE WithoutNL(_)
WithoutNL(text) ==
    IF text = <<>> THEN <<>>
    ELSE (IF Head(text) = NL THEN <<>> ELSE <<Head(text)>>) \o WithoutNL(Tail(text))

\* The i-th chunk text starts in the transcript right after the texts and
\* the separators before it.
RECURSIVE TextOffset(_, _, _)
TextOffset(t, i, acc) ==
    IF i = 0 THEN acc ELSE TextOffset(t, i - 1, acc + Len(textRes[t][i - 1].data) + 1)

\* C13: the finalized transcript is the checkpointed chunk texts in chunk
\* order with one separator between neighbours: n chunks give n - 1
\* separators, each text stands at its place, and nothing else is in it.  It
\* is a function of the checkpoints, so writing it again gives the same text.
C13_TranscriptJoined ==
    \A t \in TaskNames :
        transcript[t].st = "ok" =>
            /\ manifest[t].st = "ok"
            /\ LET n == manifest[t].data[1].total_chunks
                   text == transcript[t].data
               IN /\ \A i \in 0..(n - 1) : textRes[t][i].st = "ok"
                  /\ CountNL(text) = (IF n = 0 THEN 0 ELSE n - 1)
                  /\ WithoutNL(text) = Concat([i \in 1..n |-> textRes[t][i - 1].data])
                  /\ \A i \in 0..(n - 1) :
                         /\ SubSeq(text, TextOffset(t, i, 0) + 1,
                                   TextOffset(t, i, 0) + Len(textRes[t][i].data))
                                = textRes[t][i].data
                         /\ i < n - 1 =>
                                text[TextOffset(t, i, 0) + Len(textRes[t][i].data) + 1] = NL

\* C13 witness: a run over a task that already had its transcript has written
\* it again from the checkpoints of two chunks.
C13_Witness ==
    \E p \in Procs :
        /\ Finished(p) /\ run[p].calls = <<>>
        /\ run[p].selComplete
        /\ Len(run[p].chunk_paths) = 2
        /\ transcript[run[p].task].st = "ok"

\* ------------------------------------------------------ the diarizer's cache
\* A call of diarize_audio that has looked into the cache.
Looked(p) == dcall[p].pc \notin {"idle", "load"}

\* C14: after a completed save for a file and a task, the load for them
\* returns the saved list while the file's size and modification time are
\* what they were, and None as soon as either of them is different.
C14_CacheRoundTrip ==
    \A t \in TaskNames :
        dhist.saved[t].some =>
            LET was == dhist.saved[t].stat
                is == stat[t.stem]
                got == load_diarization_cache(t.stem, t)
            IN /\ is = was => got = Some(dhist.saved[t].segments)
               /\ (is.st_size # was.st_size \/ is.st_mtime # was.st_mtime) => got = None

\* An entry that holds a key for the file as the call saw it and a list.
ValidFor(entry, src, seen) ==
    /\ entry.st = "ok"
    /\ entry.data[1].cache_key = Some(<<src, seen.st_size, seen.st_mtime.sec>>)
    /\ entry.data[1].segments # None

\* C15: a call that finds a valid entry is a hit; a hit returns the entry's
\* list, has not run the engine and has left the cache file as it was; the
\* engine has run only in calls that missed.
C15_HitSkipsEngine ==
    \A p \in Procs :
        LET c == dcall[p]
        IN /\ (Looked(p) /\ ValidFor(c.seen.entry, c.src, c.seen.stat)) => c.hit
           /\ c.hit =>
                  /\ ~c.called /\ ~c.wrote
                  /\ cache[c.task] = c.seen.entry
                  /\ c.pc = "done" => c.ret = c.seen.entry.data[1].segments[1]
           /\ c.called => ~c.hit

\* C15 witness: a call has returned the two speakers' list from the cache.
C15_Witness ==
    \E p \in Procs :
        /\ dcall[p].pc = "done" /\ dcall[p].hit
        /\ Len(dcall[p].ret) = 2

\* C16: whatever the cache file of a task holds, a load that does not return
\* None returns the whole list of a run that completed its save; and a call
\* that follows a call broken off after its miss, with the file as that call
\* saw it, misses again.
C16_HitsAreCompleteRuns ==
    /\ \A t \in TaskNames :
           LET got == load_diarization_cache(t.stem, t)
           IN got # None =>
                  /\ dhist.saved[t].some
                  /\ got = Some(dhist.saved[t].segments)
                  /\ dhist.saved[t].segments \in Diarizations
    /\ \A p \in Procs :
           LET c == dcall[p]
           IN (Looked(p) /\ c.broken.some /\ c.broken.stat = c.seen.stat) =>
                  /\ ~c.hit
                  /\ c.pc = "done" => c.called

\* C16 witness: a call found the cut-off file of a killed save, ran the
\* engine again and returned.
C16_Witness ==
    \E p \in Procs :
        /\ dcall[p].pc = "done" /\ dcall[p].called
        /\ dcall[p].broken.some /\ dcall[p].broken.stat = dcall[p].seen.stat
        /\ dcall[p].seen.entry.st = "torn" /\ dcall[p].seen.entry.data # <<>>

IsMalformed(entry) ==
    \/ entry.st = "torn"
    \/ entry.st = "ok" /\ (entry.data[1].cache_key = None \/ entry.data[1].segments = None)

\* C17: a call that finds a malformed entry misses; if it fails, the engine
\* failed; if it returns, it ran the engine and wrote a well-formed entry in
\* its place, and the load for the file as saved returns the list just made.
C17_MalformedIsMiss ==
    \A p \in Procs :
        LET c == dcall[p]
        IN (Looked(p) /\ IsMalformed(c.seen.entry)) =>
               /\ ~c.hit
               /\ c.pc = "failed" => c.called
               /\ c.pc = "done" =>
                      /\ c.called /\ c.wrote
                      /\ cache[c.task].st = "ok" /\ ~IsMalformed(cache[c.task])
                      /\ stat[c.src] = dhist.saved[c.task].stat =>
                             load_diarization_cache(c.src, c.task) = Some(c.ret)

\* C17 witness: a call found an entry without "segments" under the right
\* key and returned the two speakers' list, which the cache now holds.
C17_Witness ==
    \E p \in Procs :
        /\ dcall[p].pc = "done"
        /\ dcall[p].seen.entry.st = "ok" /\ dcall[p].seen.entry.data[1].segments = None
        /\ Len(dcall[p].ret) = 2
        /\ load_diarization_cache(dcall[p].src, dcall[p].task) = Some(dcall[p].ret)

\* C18: a call for a file over which a call of another task has completed,
\* the file being as it was then, is a hit and does not run the engine.
C18_CacheSharedBetweenTasks ==
    \A p \in Procs :
        LET c == dcall[p]
        IN (/\ Looked(p)
            /\ c.completed.some
            /\ c.completed.task # c.task
            /\ c.completed.stat = c.seen.stat) =>
               c.hit /\ ~c.called

\* ---------------------------------------------------------------- aligner
\* The time two spans have in common.
Common(a, b) ==
    LET from == IF a.start >= b.start THEN a.start ELSE b.start
        to == IF a.end <= b.end THEN a.end ELSE b.end
    IN IF from < to THEN to - from ELSE 0

\* The list L in the order pi.
Reordered(L, pi) == [i \in 1..Len(L) |-> L[pi[i]]]

Orders(L) == {pi \in [1..Len(L) -> 1..Len(L)] : \A i, j \in 1..Len(L) : pi[i] = pi[j] => i = j}

\* C19: a sentence is labelled with the speaker of the interval that has
\* more time in common with it than every other interval, in whatever order
\* the intervals are listed, and with the unknown label when there is no
\* interval or none has time in common with it.
C19_GreatestOverlapWins ==
    aligned.pc = "done" =>
        \A i \in 1..Len(whisper_segments) :
            LET s == whisper_segments[i]
                L == diarization_segments
            IN /\ \A j \in 1..Len(L) :
                      (/\ Common(s, L[j]) > 0
                       /\ \A k \in 1..Len(L) : k # j => Common(s, L[k]) < Common(s, L[j])) =>
                          /\ aligned.labels[i] = L[j].speaker
                          /\ \A pi \in Orders(L) :
                                 find_speaker(Reordered(L, pi), s.start, s.end) = L[j].speaker
               /\ (\A j \in 1..Len(L) : Common(s, L[j]) = 0) => aligned.labels[i] = UNKNOWN

\* C19 witness: the second of two sentences has half a second in common with
\* the first listed interval and a second and a half with the second one, and
\* is labelled with the second one's speaker.
C19_Witness ==
    /\ aligned.pc = "done"
    /\ Len(whisper_segments) = 2
    /\ whisper_segments[2].start = 2000
    /\ diarization_segments = <<Interval(0, 2500, SPEAKER_A), Interval(2500, 4000, SPEAKER_B)>>
    /\ aligned.labels = <<SPEAKER_A, SPEAKER_B>>

\* C20: a sentence for which two intervals of different speakers share the
\* greatest time in common, more than none, is labelled unknown.
C20_TieIsUnknown ==
    aligned.pc = "done" =>
        \A i \in 1..Len(whisper_segments) :
            LET s == whisper_segments[i]
                L == diarization_segments
            IN (\E j, k \in 1..Len(L) :
                    /\ L[j].speaker # L[k].speaker
                    /\ Common(s, L[j]) > 0
                    /\ Common(s, L[j]) = Common(s, L[k])
                    /\ \A m \in 1..Len(L) : Common(s, L[m]) <= Common(s, L[j])) =>
                   aligned.labels[i] = UNKNOWN

\* -------------------------------------------------------------- run-merge
\* The places where a run of one speaker begins.
RunStarts ==
    {i \in 1..Len(aligned.labels) : i = 1 \/ aligned.labels[i] # aligned.labels[i - 1]}

\* The k-th of them, and the last place of the k-th run.
RunStart(k) == CHOOSE i \in RunStarts : Cardinality({j \in RunStarts : j <= i}) = k

RunEnd(k) ==
    IF k = Cardinality(RunStarts) THEN Len(aligned.labels) ELSE RunStart(k + 1) - 1

RunTexts(k) == [i \in 1..(RunEnd(k) - RunStart(k) + 1) |-> whisper_segments[RunStart(k) + i - 1].text]

\* A paragraph without its speaker's bracket.
ParagraphText(line) == SubSeq(line, 4, Len(line))

\* C21: both run-merges give one paragraph per maximal run of sentences with
\* the same speaker, in order: the paragraph carries the run's speaker and
\* the run's texts with nothing between them, neighbours have different
\* speakers, the paragraphs' texts together are the sentences' texts, the
\* result is the paragraphs with an empty line between them, and without
\* speaker intervals the aligner gives one paragraph of the unknown speaker.
C21_ParagraphsAreMaximalRuns ==
    aligned.pc \in {"done", "built"} =>
        /\ Len(aligned.lines) = Cardinality(RunStarts)
        /\ \A k \in 1..Len(aligned.lines) :
               /\ aligned.lines[k] =
                      <<"[", aligned.labels[RunStart(k)], "]">> \o Concat(RunTexts(k))
               /\ \A i \in RunStart(k)..RunEnd(k) :
                      aligned.labels[i] = aligned.labels[RunStart(k)]
               /\ k > 1 => aligned.lines[k][2] # aligned.lines[k - 1][2]
        /\ Concat([k \in 1..Len(aligned.lines) |-> ParagraphText(aligned.lines[k])])
               = Concat([i \in 1..Len(whisper_segments) |-> whisper_segments[i].text])
        /\ aligned.text = Join(aligned.lines, <<NL, NL>>)
        /\ (aligned.pc = "done" /\ diarization_segments = <<>> /\ whisper_segments # <<>>) =>
               (Len(aligned.lines) = 1 /\ aligned.lines[1][2] = UNKNOWN)

\* C21 witness: three sentences of speakers A, A, B have become two
\* paragraphs, the first with two texts.
C21_Witness ==
    /\ aligned.pc = "built"
    /\ aligned.labels = <<SPEAKER_A, SPEAKER_A, SPEAKER_B>>
    /\ Len(aligned.lines) = 2
    /\ Len(ParagraphText(aligned.lines[1])) = 2

\* ------------------------------------------------------------------ batch
DiarizationFailed(j) == batch.log[j].diarization = "failed"

TranscriptionFailed(j) == batch.log[j].transcription = "failed"

\* File j was given up without a record: nothing was stored for it and the
\* task list was, when it was given up, what it was when the file began.
GivenUp(j) ==
    /\ ~batch.log[j].recorded
    /\ batch.log[j].after = batch.log[j].before
    /\ (j \in DOMAIN completed_tasks) = (j \in DOMAIN batch.first)
    /\ j \in DOMAIN completed_tasks => completed_tasks[j] = batch.first[j]

\* C22 as stated: after a batch, for every file j whose diarization or
\* transcription failed, file j was given up without a record, the task list
\* was left as it was, and every later file of the batch was processed.
C22_ErrorAbortsOnlyItsFile ==
    batch.pc = "returned" =>
        \A j \in 1..batch.files :
            (DiarizationFailed(j) \/ TranscriptionFailed(j)) =>
                /\ GivenUp(j)
                /\ \A k \in (j + 1)..batch.files : batch.log[k].started

\* The batch was ended between file j and file k by a failed diarization
\* under the setting to stop.
StoppedBetween(j, k) ==
    \E m \in (j + 1)..(k - 1) :
        DiarizationFailed(m) /\ batch.diarization_fallback = "stop"

\* C22 amended: a failed transcription of file j gives up file j alone.  A
\* failed diarization of file j ends the batch there when the setting is to
\* stop: file j is given up and no later file is begun; otherwise file j goes
\* on to its transcription and is recorded if and only if that succeeds.
\* After a file that did not end the batch every later file is begun, up to
\* a file that does end it.
C22_ErrorHandlingBySetting ==
    batch.pc = "returned" =>
        \A j \in 1..batch.files :
            /\ TranscriptionFailed(j) =>
                   /\ GivenUp(j)
                   /\ \A k \in (j + 1)..batch.files :
                          batch.log[k].started \/ StoppedBetween(j, k)
            /\ (DiarizationFailed(j) /\ batch.diarization_fallback = "stop") =>
                   /\ GivenUp(j)
                   /\ batch.log[j].transcription = "none"
                   /\ \A k \in (j + 1)..batch.files : ~batch.log[k].started
            /\ (DiarizationFailed(j) /\ batch.diarization_fallback # "stop") =>
                   /\ batch.log[j].transcription # "none"
                   /\ batch.log[j].recorded = (batch.log[j].transcription = "ok")
                   /\ \A k \in (j + 1)..batch.files : batch.log[k].started

\* C22 witness: in a batch of three files the transcription of the first one
\* failed, the second one was begun, its diarization failed under the
\* setting to stop, and the third one was never begun.
C22_Witness ==
    /\ batch.pc = "returned" /\ batch.files = 3
    /\ TranscriptionFailed(1) /\ ~batch.log[1].recorded
    /\ DiarizationFailed(2) /\ batch.diarization_fallback = "stop"
    /\ ~batch.log[3].started

\* -------------------------------------------------------------- task list
\* The thread is inside its critical section, past its update.
Updated(t) == thr[t].pc \in {"save", "write"}

\* What the call of thread t makes of a dictionary.
Effect(t, dict) ==
    IF thr[t].op = "upsert_task" THEN Put(dict, thr[t].name, thr[t].task[1])
    ELSE IF thr[t].op = "delete_task_by_name" THEN Del(dict, thr[t].name)
    ELSE dict

\* C23: at most one thread is between getting and leaving the lock; while a
\* thread is there the dictionary is what that thread found or made of it,
\* and what it is about to write is the dictionary; whenever no thread is
\* there the saved list is the dictionary; and what a reader returned is
\* what the dictionary held, whole, when it had the lock.
C23_TaskListSerialized ==
    /\ Cardinality({t \in Threads : thr[t].pc \in {"body", "save", "write"}}) <= 1
    /\ \A t \in Threads :
           /\ thr[t].pc = "body" => completed_tasks = thr[t].seen
           /\ Updated(t) => completed_tasks = Effect(t, thr[t].seen)
           /\ thr[t].pc = "write" => thr[t].serializable = Serialize(completed_tasks)
           /\ (thr[t].pc = "done" /\ thr[t].op = "get_task_names") =>
                  thr[t].ret = Some(DOMAIN thr[t].seen)
           /\ (thr[t].pc = "done" /\ thr[t].op = "get_task") =>
                  thr[t].ret = IF thr[t].name \in DOMAIN thr[t].seen
                               THEN Some(thr[t].seen[thr[t].name]) ELSE None
    /\ (\A t \in Threads : thr[t].pc \in {"idle", "acquire", "done"}) =>
           /\ lock = None
           /\ tasks_db = File(<<Serialize(completed_tasks)>>)

\* C23 witness: both threads have finished a call that changed the list, one
\* an upsert and one a delete of the same name, and the saved list is the
\* dictionary.
C23_Witness ==
    /\ thr[1].pc = "done" /\ thr[1].op = "upsert_task"
    /\ thr[2].pc = "done" /\ thr[2].op = "delete_task_by_name" /\ thr[2].ret = Some(TRUE)
    /\ thr[1].name = thr[2].name
    /\ thr[1].seen # thr[2].seen
    /\ tasks_db = File(<<Serialize(completed_tasks)>>)

\* ------------------------------------------------- the cache, two writers
\* The instances that have the cache file of a task open for writing.
Writers(task) == {p \in DOMAIN dcall : dcall[p].pc = "write" /\ dcall[p].task = task}

\* The segment lists that runs have written or are writing to the entry.
Written(task) ==
    {dcall[p].segments : p \in {q \in DOMAIN dcall : dcall[q].task = task /\
                                    (dcall[q].pc = "write" \/ dcall[q].wrote)}}
    \cup (IF dhist.saved[task].some THEN {dhist.saved[task].segments} ELSE {})

\* C24: no two instances have the same cache file open for writing at once,
\* and whatever load_diarization_cache accepts from a cache file, at any
\* moment, is the whole segment list of one run that wrote it.
C24_CacheWritesSerialized ==
    \A p \in DOMAIN dcall :
        dcall[p].task # NoTask =>
            /\ Cardinality(Writers(dcall[p].task)) <= 1
            /\ LET got == load_diarization_cache(dcall[p].src, dcall[p].task)
               IN got # None => got[1] \in Written(dcall[p].task)

\* The second half alone: a hit is the list of one run.
C24_HitIsOneRun ==
    \A p \in DOMAIN dcall :
        dcall[p].task # NoTask =>
            LET got == load_diarization_cache(dcall[p].src, dcall[p].task)
            IN got # None => got[1] \in Written(dcall[p].task)

\* --------------------------------------------------- the loop, in order
\* The chunk's text file is there and its segments file is not.
PartlyCommitted(task_name, idx) ==
    Exists(textRes[task_name][idx]) /\ ~Exists(segRes[task_name][idx])

\* C25: a run that is at chunk i, in the loop or between the engine call and
\* the second result file, has both result files of every chunk before i; a
\* task has at most one chunk with its text file and no segments file; and
\* the chunks with both files are the first ones of the task.
C25_LoopIsSequential ==
    /\ \A p \in Procs :
           run[p].pc \in {"loop", "save_text", "save_seg"} =>
               \A j \in ChunkIdx : j < run[p].idx => HasResult(run[p].task, j)
    /\ \A t \in TaskNames :
           /\ Cardinality({i \in ChunkIdx : PartlyCommitted(t, i)}) <= 1
           /\ \A i, j \in ChunkIdx :
                  (HasResult(t, i) /\ j < i) => HasResult(t, j)

\* C25 witness: after a crash that left the text file of the second chunk
\* without its segments file, a later run is in the loop again, past the
\* first chunk.
C25_Witness ==
    \E p \in Procs :
        /\ run[p].pc = "loop" /\ run[p].resumed /\ run[p].idx = 1
        /\ HasResult(run[p].task, 0)
        /\ PartlyCommitted(run[p].task, 1)

\* ------------------------------------------------ the order of artifacts
\* The text of chunk i of a task stands in `text` at its place.
StandsIn(t, i, text) ==
    LET off == TextOffset(t, i, 0)
        data == textRes[t][i].data
    IN /\ Len(text) >= off + Len(data)
       /\ SubSeq(text, off + 1, off + Len(data)) = data

\* C26: a task whose finalized transcript is there and not blank has its
\* manifest, and every chunk of the manifest has both result files, whole,
\* and its text in the transcript.
C26_ManifestCheckpointsTranscript ==
    \A t \in TaskNames :
        ~Unfinished(t) =>
            /\ manifest[t].st = "ok"
            /\ \A i \in 0..(manifest[t].data[1].total_chunks - 1) :
                   /\ Committed(t, i)
                   /\ StandsIn(t, i, transcript[t].data)

\* The same of a transcript that was written to its end.
C26_WholeTranscript ==
    \A t \in TaskNames :
        (~Unfinished(t) /\ transcript[t].st = "ok") =>
            /\ manifest[t].st = "ok"
            /\ \A i \in 0..(manifest[t].data[1].total_chunks - 1) :
                   /\ Committed(t, i)
                   /\ StandsIn(t, i, transcript[t].data)

\* ------------------------------------------------- what a finished task has
\* No run is at work on the task: whatever it lacks, it lacks for good
\* unless a later run takes it up.
AtRest(t) == \A p \in Procs : run[p].task = t => run[p].pc \in {"idle", "done", "failed"}

\* Some sentence of the task's global segments has a speaker.
SpeakersFound(t) ==
    \E k \in 1..Len(segmentsOut[t].data) : segmentsOut[t].data[k].speaker # UNKNOWN

\* C27: a task at rest whose finalized transcript is there and not blank,
\* which the resumer therefore never takes up, has its segments.json, whole,
\* and, if a run with enable_speaker worked on it and its segments name a
\* speaker, its annotated transcript.
C27_CompleteHasAllArtifacts ==
    \A t \in TaskNames :
        (AtRest(t) /\ ~Unfinished(t)) =>
            /\ segmentsOut[t].st = "ok"
            /\ (TRUE \in usedFlags[t] /\ SpeakersFound(t)) => annotated[t].st = "ok"

\* ------------------------------------------------------ calls side by side
\* The call has its task name and has not returned.
AtWork(p) == run[p].pc \notin {"idle", "done", "failed"}

\* C28: two calls of transcribe_audio that are at work at the same time,
\* for one source or for two, have different task names, and so different
\* chunk and checkpoint directories.
C28_OwnDirectory ==
    \A p, q \in DOMAIN run :
        (p # q /\ AtWork(p) /\ AtWork(q)) => run[p].task # run[q].task

\* The same of calls for two different sources only.
C28_OwnDirectoryPerSource ==
    \A p, q \in DOMAIN run :
        (p # q /\ AtWork(p) /\ AtWork(q) /\ run[p].src # run[q].src) =>
            run[p].task # run[q].task

\* ---------------------------------------------------- whose task is found
\* C29: the task that _find_existing_task returns for a file name was made
\* for a source of exactly that stem, never for a source whose stem goes on
\* after the name with an underscore and more.
C29_ExactStemOnly ==
    \A p \in Procs :
        (run[p].pc = "found" /\ run[p].task # NoTask) => run[p].task.stem = run[p].src

\* ------------------------------------------- the labels of loaded chunks
\* What the engine and _parse_funasr_result make of chunk idx of a task
\* under a speaker setting.
Fresh(task_name, idx, flag) ==
    LET chunk == chunkFile[task_name][idx].data[1]
    IN _parse_funasr_result(Generate(chunk, audio[chunk.src].silent, flag), Shift(idx), flag)

\* The global segments of an uninterrupted run over the first n chunks.
RECURSIVE FreshSegments(_, _, _)
FreshSegments(task_name, n, flag) ==
    IF n = 0 THEN <<>>
    ELSE FreshSegments(task_name, n - 1, flag) \o Fresh(task_name, n - 1, flag).segments

\* What that run returns: the annotated text if a speaker was found, else
\* the chunk texts joined.
FreshReturn(task_name, n, flag) ==
    LET segs == FreshSegments(task_name, n, flag)
    IN IF flag /\ \E k \in 1..Len(segs) : segs[k].speaker # UNKNOWN
       THEN _build_annotated_text(segs)
       ELSE Join([i \in 1..n |-> Fresh(task_name, i - 1, flag).text], <<NL>>)

\* C30: a run that went through the chunk loop to its return, loading the
\* checkpoints it found, has the global segments and returns the text of
\* an uninterrupted run with its own enable_speaker setting.
C30_LoadedLabelsFollowSetting ==
    \A p \in Procs :
        Finished(p) =>
            LET t == run[p].task
                n == Len(run[p].chunk_paths)
            IN /\ run[p].all_segments = FreshSegments(t, n, run[p].flag)
               /\ run[p].ret = FreshReturn(t, n, run[p].flag)

\* The same of runs whose setting is that of every earlier run on the task.
C30_SameSettingThroughout ==
    \A p \in Procs :
        (Finished(p) /\ usedFlags[run[p].task] = {run[p].flag}) =>
            LET t == run[p].task
                n == Len(run[p].chunk_paths)
            IN /\ run[p].all_segments = FreshSegments(t, n, run[p].flag)
               /\ run[p].ret = FreshReturn(t, n, run[p].flag)

====
